---- MODULE Spec2Model ----
(***************************************************************************)
(* Model of the CutHPM front end (frontend/app_patch.js and the mode       *)
(* switching script): reconstruction of 3D placements from a cut tree,     *)
(* the fallback statistics traversal, the cutting-program formatter and    *)
(* the run-button handlers with the scene they render into.                *)
(*                                                                         *)
(* JavaScript values are modelled as follows.                              *)
(*   - an object is a record whose DOMAIN is the set of fields present;    *)
(*     an absent field reads as undefined;                                 *)
(*   - null is the record Null;                                            *)
(*   - a string is the sequence of its character codes;                    *)
(*   - an item id is tagged: Num(n) for a number, Str(cs) for a string.    *)
(***************************************************************************)
EXTENDS Integers, Sequences, FiniteSets, TLC

VARIABLES
    tree,        \* the cut tree handed to the traversals (current encoding)
    blockDims,   \* [blockL, blockW, blockH]
    kerf,        \* kerf passed to the reconstructor
    drawn,       \* render state after drawTreeNew(tree), or Pending
    drawnOld,    \* render state after drawTree(legacy form of tree), or Pending
    stats,       \* result of calculateStatisticsNew(tree), or Pending
    statsOld,    \* result of calculateStatisticsNew(legacy form of tree), or Pending
    redrawn,     \* render state after drawTreeNew(tree) has run twice, or Pending
    cuttingTree, \* the cutting program handed to the formatter
    report,      \* result of buildCuttingTreeHTML(cuttingTree), or Pending
    onclick,     \* the handler installed on the run button: "app" or "patch"
    runBtn,      \* the run button: disabled and textContent
    inflight,    \* the handler invocations that wait for the network
    clicks,      \* number of requests started so far
    view,        \* the render state of the page (scene, module arrays, camera)
    dom,         \* mode radio, block inputs, result panel, tree view, table
    request,     \* one handler invocation: handler, mode, block and response
    handled,     \* what the handler leaves for request, or Pending
    colorCall,   \* the arguments of the color functions: itemId and itemIndex
    colorResult, \* the calls of the color functions made so far, with results
    anyTree,     \* a tree of either encoding handed to the compatibility functions
    nodeDrawn,   \* render state after drawTree(anyTree), or Pending
    nodeStats,   \* result of calculateStatistics(anyTree), or Pending
    nodeHTML,    \* result of buildTreeHTML(anyTree), or Pending
    loading      \* the page while its scripts are evaluated, or Null

treeVars == <<tree, blockDims, kerf, drawn, drawnOld, stats, statsOld, redrawn>>
formatVars == <<cuttingTree, report>>
pageVars == <<onclick, runBtn, inflight, clicks, view, dom>>
handleVars == <<request, handled>>
colorVars == <<colorCall, colorResult>>
nodeVars == <<anyTree, nodeDrawn, nodeStats, nodeHTML>>
loadVars == <<loading>>
vars == <<treeVars, formatVars, pageVars, handleVars, colorVars, nodeVars, loadVars>>

(***************************************************************************)
(* Bounds of the model.                                                    *)
(***************************************************************************)
MaxKerf == 1
MaxPos == 1
MaxSeq == 3
MaxDepth == 1
MaxClicks == 3
MaxIndex == 10
MaxCalls == 3
MaxRetries == 3

(***************************************************************************)
(* JavaScript values.                                                      *)
(***************************************************************************)
Null == [null |-> TRUE]
Pending == [pending |-> TRUE]

Num(n) == [t |-> "num", n |-> n]
Str(cs) == [t |-> "str", s |-> cs]

Has(o, f) == f \in DOMAIN o

\* o.f used as a condition, f holding an object or null
TruthyObj(o, f) == Has(o, f) /\ o[f] # Null

\* o.f used as a condition, f holding an array (null is modelled as absent)
TruthyArr(o, f) == Has(o, f)

\* o.f used as a condition, f holding a string
TruthyStr(o, f) == Has(o, f) /\ o[f] # ""

\* an item id used as a condition: 0 and "" are falsy
TruthyIdVal(id) == IF id.t = "num" THEN id.n # 0 ELSE id.s # <<>>

TruthyId(o) == Has(o, "item_id") /\ TruthyIdVal(o.item_id)

\* o.f || d for a numeric field f
NumOr(o, f, d) == IF Has(o, f) /\ o[f] # 0 THEN o[f] ELSE d

\* String(n) for the small non-negative integers the model uses
DecStr(n) == IF n < 10 THEN <<48 + n>> ELSE <<48 + (n \div 10), 48 + (n % 10)>>

\* a key that keeps numbers and strings apart
KeyByType(id) == IF id.t = "num" THEN DecStr(id.n) ELSE <<34>> \o id.s \o <<34>>

\* the property key an item id is coerced to when it indexes an object
Key(id) == IF id.t = "num" THEN DecStr(id.n) ELSE id.s

Abs(n) == IF n < 0 THEN -n ELSE n

\* hash << 5: the low 32 bits of hash * 32 read as a signed integer
\* (2^27 = 134217728, 2^26 = 67108864)
Shl5(hash) ==
    LET u == hash % 134217728
    IN  IF u < 67108864 THEN u * 32 ELSE (u - 134217728) * 32

(***************************************************************************)
(* getItemColor(itemId, itemIndex).  itemId.length is undefined for a      *)
(* number, so the hash loop does not run and hash stays 0.                 *)
(***************************************************************************)
hues == <<0, 30, 60, 120, 180, 210, 240, 270, 300, 330>>

RECURSIVE HashChars(_, _, _)
HashChars(cs, i, hash) ==
    IF i > Len(cs) THEN hash
    ELSE HashChars(cs, i + 1, cs[i] + (Shl5(hash) - hash))

\* getItemColor with hues spaced evenly instead of taken from the palette
getItemColorEvenHues(itemId, itemIndex) ==
    LET hue == (itemIndex * 36) % 360
        hash == IF itemId.t = "str" THEN HashChars(itemId.s, 1, 0) ELSE 0
        hueOffset == (Abs(hash) % 20) - 10
        saturation == 75 + (Abs(hash) % 20)
        lightness == 50 + (Abs(hash) % 15)
    IN  [h |-> hue + hueOffset, s |-> saturation, l |-> lightness]

getItemColor(itemId, itemIndex) ==
    LET hue == hues[(itemIndex % Len(hues)) + 1]
        hash == IF itemId.t = "str" THEN HashChars(itemId.s, 1, 0) ELSE 0
        hueOffset == (Abs(hash) % 20) - 10
        saturation == 75 + (Abs(hash) % 20)
        lightness == 50 + (Abs(hash) % 15)
    IN  [h |-> hue + hueOffset, s |-> saturation, l |-> lightness]

(***************************************************************************)
(* The render state threaded through the drawing functions:                *)
(*   hasScene     the module variable scene is set                         *)
(*   scene        scene.children, in insertion order                       *)
(*   itemMeshes, itemLabels   the module arrays                            *)
(*   disposed     objects whose geometry and material were disposed        *)
(*   colorKeys    keys of itemColorMap in insertion order; itemIndexMap    *)
(*                maps the i-th key to i-1                                 *)
(*   colorVals    the colour stored under the i-th key                     *)
(*   camera       twice camera.position (equal on the three axes) and      *)
(*                twice controls.target                                    *)
(*   before       history: the objects other than lights that were in the  *)
(*                scene when the last handler began to draw                *)
(*   leftover     history: the objects other than lights that were still   *)
(*                in the scene when the last handler began to add objects  *)
(*   raised       an exception was raised while drawing                    *)
(*   calls        history of the recursive calls (path and origin)         *)
(*   gen          history: number of the result being rendered             *)
(***************************************************************************)
Lights == <<[kind |-> "light", name |-> "light1"],
            [kind |-> "light", name |-> "light2"],
            [kind |-> "light", name |-> "ambient"]>>

IsLight(obj) == obj.kind = "light"

EmptyRender(hasScene) ==
    [hasScene |-> hasScene,
     scene |-> IF hasScene THEN Lights ELSE <<>>,
     itemMeshes |-> <<>>, itemLabels |-> <<>>, disposed |-> {},
     blockWireframe |-> Null, winBlockWireframe |-> Null,
     currentBlockDims |-> <<0, 0, 0>>, winCurrentBlockDims |-> <<0, 0, 0>>,
     camera |-> [position2 |-> 4000, target2 |-> <<0, 0, 0>>],
     before |-> {}, leftover |-> {},
     colorKeys |-> <<>>, colorVals |-> <<>>, calls |-> <<>>, gen |-> 0,
     raised |-> FALSE]

\* addBox putting the new objects in front of the older ones
addBoxInFront(st, x, y, z, L, W, H, color, itemId, isSubBlock, path) ==
    IF ~st.hasScene THEN st
    ELSE IF L <= 0 \/ W <= 0 \/ H <= 0 THEN st
    ELSE LET mesh == [kind |-> "mesh", gen |-> st.gen, path |-> path,
                      itemId |-> itemId, x |-> x, y |-> y, z |-> z,
                      l |-> L, w |-> W, h |-> H,
                      color |-> color, isSubBlock |-> isSubBlock]
             edgeLines == [mesh EXCEPT !.kind = "edges"]
             label == [mesh EXCEPT !.kind = "label"]
         IN  [st EXCEPT !.scene = <<mesh, edgeLines>> \o @,
                        !.itemMeshes = <<mesh, edgeLines>> \o @,
                        !.itemLabels = IF isSubBlock THEN <<label>> \o @ ELSE @]

\* addBox: nothing without a scene or with a non-positive dimension, else a
\* mesh and its edge lines are added to the scene and to itemMeshes, and a
\* sub-block gets a label.
addBox(st, x, y, z, L, W, H, color, itemId, isSubBlock, path) ==
    IF ~st.hasScene THEN st
    ELSE IF L <= 0 \/ W <= 0 \/ H <= 0 THEN st
    ELSE LET mesh == [kind |-> "mesh", gen |-> st.gen, path |-> path,
                      itemId |-> itemId, x |-> x, y |-> y, z |-> z,
                      l |-> L, w |-> W, h |-> H,
                      color |-> color, isSubBlock |-> isSubBlock]
             edgeLines == [mesh EXCEPT !.kind = "edges"]
             label == [mesh EXCEPT !.kind = "label"]
         IN  [st EXCEPT !.scene = @ \o <<mesh, edgeLines>>,
                        !.itemMeshes = @ \o <<mesh, edgeLines>>,
                        !.itemLabels = IF isSubBlock THEN Append(@, label) ELSE @]

IndexOf(seq, e) == CHOOSE i \in 1..Len(seq) : seq[i] = e

InSeq(seq, e) == \E i \in 1..Len(seq) : seq[i] = e

\* the colour lookup of the leaf branches of drawTreeNew and drawTree: the
\* colour stored under the id's key, or a new one for the next index
LeafColor(st, itemId) ==
    LET key == Key(itemId)
    IN  IF InSeq(st.colorKeys, key)
        THEN [st |-> st, color |-> st.colorVals[IndexOf(st.colorKeys, key)]]
        ELSE LET color == getItemColor(itemId, Len(st.colorKeys))
             IN  [st |-> [st EXCEPT !.colorKeys = Append(@, key),
                                    !.colorVals = Append(@, color)],
                  color |-> color]

Called(st, fn, path, origin) ==
    [st EXCEPT !.calls = Append(@, [fn |-> fn, path |-> path, origin |-> origin])]

\* RightOrigin with the axes of the legacy traversal: H moves x, V moves y,
\* D moves z
RightOriginLegacyAxes(cutDir, origin, pos, k) ==
    IF cutDir = "H" THEN <<origin[1] + pos + k, origin[2], origin[3]>>
    ELSE IF cutDir = "V" THEN <<origin[1], origin[2] + pos + k, origin[3]>>
    ELSE IF cutDir = "D" THEN <<origin[1], origin[2], origin[3] + pos + k>>
    ELSE origin

\* the origin drawTreeNew gives the right subtree of a cut
RightOrigin(cutDir, origin, pos, k) ==
    IF cutDir = "V" THEN <<origin[1] + pos + k, origin[2], origin[3]>>
    ELSE IF cutDir = "D" THEN <<origin[1], origin[2] + pos + k, origin[3]>>
    ELSE IF cutDir = "H" THEN <<origin[1], origin[2], origin[3] + pos + k>>
    ELSE origin

(***************************************************************************)
(* drawTreeNew(tree, blockDims, kerf, origin, itemColorMap, itemIndexMap)  *)
(***************************************************************************)
RECURSIVE drawTreeNew(_, _, _, _, _, _)
drawTreeNew(t, dims, k, origin, path, st0) ==
    IF t = Null THEN st0
    ELSE
    LET st == Called(st0, "drawTreeNew", path, origin)
        L == NumOr(t, "length", dims[1])
        W == NumOr(t, "width", dims[2])
        H == NumOr(t, "height", dims[3])
    IN  IF TruthyId(t) /\ ~TruthyStr(t, "cut_dir") THEN
            LET c == LeafColor(st, t.item_id)
            IN  addBox(c.st, origin[1], origin[2], origin[3], L, W, H,
                       c.color, t.item_id, FALSE, path)
        ELSE IF TruthyStr(t, "cut_dir")
                /\ (TruthyObj(t, "left_pattern") \/ TruthyObj(t, "right_pattern")) THEN
            LET cutDir == t.cut_dir
                pos == NumOr(t, "cut_pos", 0)
                stL == IF TruthyObj(t, "left_pattern")
                       THEN drawTreeNew(t.left_pattern, dims, k, origin,
                                        Append(path, 0), st)
                       ELSE st
                newOrigin == RightOrigin(cutDir, origin, pos, k)
            IN  IF TruthyObj(t, "right_pattern")
                THEN drawTreeNew(t.right_pattern, dims, k, newOrigin,
                                 Append(path, 1), stL)
                ELSE stL
        ELSE st

\* a further call of drawTreeNew by the same caller: the default itemColorMap
\* and itemIndexMap are new objects, the scene is the one the earlier call
\* drew into; gen is history
NextRun(st) == [st EXCEPT !.gen = @ + 1, !.colorKeys = <<>>, !.colorVals = <<>>]

\* drawTreeNewTwice with the second run starting where the first one ended
drawTreeNewTwiceMovingOrigin(t, dims, k, origin) ==
    LET first == drawTreeNew(t, dims, k, origin, <<>>, EmptyRender(TRUE))
        last == IF first.calls = <<>> THEN origin
                ELSE first.calls[Len(first.calls)].origin
    IN  drawTreeNew(t, dims, k, last, <<>>, NextRun(first))

\* drawTreeNew called twice with the same tree, kerf and origin array
drawTreeNewTwice(t, dims, k, origin) ==
    LET first == drawTreeNew(t, dims, k, origin, <<>>, EmptyRender(TRUE))
    IN  drawTreeNew(t, dims, k, origin, <<>>, NextRun(first))

(***************************************************************************)
(* drawTree(tree, blockDims, kerf, origin, itemColorMap, itemIndexMap):    *)
(* dispatches a node of the current encoding to drawTreeNew and handles    *)
(* the legacy encoding (kind, box, axis, pos, children) itself.            *)
(***************************************************************************)
RECURSIVE drawTree(_, _, _, _, _, _)
drawTree(t, dims, k, origin, path, st0) ==
    IF t = Null THEN st0
    ELSE IF Has(t, "length") \/ Has(t, "cut_dir") THEN
        drawTreeNew(t, dims, k, origin, path, st0)
    ELSE
    LET st == Called(st0, "drawTree", path, origin)
        box == IF Has(t, "box") THEN t.box ELSE dims
        kind == IF Has(t, "kind") THEN t.kind ELSE ""
    IN  IF kind = "leaf" /\ TruthyId(t) THEN
            LET c == LeafColor(st, t.item_id)
            IN  addBox(c.st, origin[1], origin[2], origin[3], box[1], box[2], box[3],
                       c.color, t.item_id, FALSE, path)
        ELSE IF kind = "cut" /\ Has(t, "children") /\ Len(t.children) >= 2 THEN
            LET axis == IF Has(t, "axis") THEN t.axis ELSE ""
                pos == NumOr(t, "pos", 0)
                rightOrigin ==
                    IF axis = "H" THEN <<origin[1] + pos + k, origin[2], origin[3]>>
                    ELSE IF axis = "V" THEN <<origin[1], origin[2] + pos + k, origin[3]>>
                    ELSE <<origin[1], origin[2], origin[3] + pos + k>>
            IN  IF axis \in {"H", "V", "D"} THEN
                    drawTree(t.children[2], dims, k, rightOrigin, Append(path, 1),
                             drawTree(t.children[1], dims, k, origin, Append(path, 0), st))
                ELSE st
        ELSE st

(***************************************************************************)
(* calculateStatisticsNew(tree, items, blockDims) and its inner traversal  *)
(* countItems.  stats.items is a function from property keys to entries.   *)
(* Reading a field of a null node raises a TypeError, which ends the       *)
(* traversal.  A percentage is the exact fraction num/den.                 *)
(***************************************************************************)
Frac(n, d) == [num |-> n, den |-> d]

NoItems == [key \in {} |-> [count |-> 0, volume |-> 0]]

\* the leaf accounting of countItems: create the entry, count++, volume +=
CountLeaf(s, itemId, volume) ==
    LET key == Key(itemId)
        old == IF key \in DOMAIN s.items THEN s.items[key]
               ELSE [id |-> itemId, count |-> 0, volume |-> 0]
        new == [old EXCEPT !.count = @ + 1, !.volume = @ + volume]
    IN  [s EXCEPT !.items = [kk \in DOMAIN s.items \cup {key} |->
                                IF kk = key THEN new ELSE s.items[kk]],
                  !.totalFilled = @ + volume]

RECURSIVE countItems(_, _)
RECURSIVE countChildren(_, _, _)

countChildren(children, i, s) ==
    IF i > Len(children) THEN s
    ELSE countChildren(children, i + 1, countItems(children[i], s))

countItems(node, s) ==
    IF s.raised THEN s
    ELSE IF node = Null THEN [s EXCEPT !.raised = TRUE]
    ELSE
    LET s1 == IF TruthyId(node) /\ ~TruthyStr(node, "cut_dir")
              THEN CountLeaf(s, node.item_id,
                             NumOr(node, "length", 0) * NumOr(node, "width", 0)
                                 * NumOr(node, "height", 0))
              ELSE s
        box == IF Has(node, "box") THEN node.box ELSE <<0, 0, 0>>
        s2 == IF Has(node, "kind") /\ node.kind = "leaf" /\ TruthyId(node)
              THEN CountLeaf(s1, node.item_id, box[1] * box[2] * box[3])
              ELSE s1
        s3 == IF TruthyObj(node, "left_pattern")
              THEN countItems(node.left_pattern, s2) ELSE s2
        s4 == IF TruthyObj(node, "right_pattern")
              THEN countItems(node.right_pattern, s3) ELSE s3
    IN  IF Has(node, "children") THEN countChildren(node.children, 1, s4) ELSE s4

Raised == [raised |-> TRUE]

calculateStatisticsNew(t, dims) ==
    LET totalVolume == dims[1] * dims[2] * dims[3]
        s0 == [items |-> NoItems, totalFilled |-> 0, raised |-> FALSE]
        s == IF t # Null THEN countItems(t, s0) ELSE s0
        totalWaste == totalVolume - s.totalFilled
    IN  IF s.raised THEN Raised
        ELSE [items |-> s.items,
              totalFilled |-> s.totalFilled,
              totalWaste |-> totalWaste,
              totalVolume |-> totalVolume,
              fillPercent |-> IF totalVolume > 0
                              THEN Frac(s.totalFilled * 100, totalVolume)
                              ELSE Frac(0, 1),
              wastePercent |-> IF totalVolume > 0
                               THEN Frac(totalWaste * 100, totalVolume)
                               ELSE Frac(0, 1)]

(***************************************************************************)
(* buildCuttingTreeHTML(cuttingTree).  The HTML is modelled by its parts:  *)
(* the header totals, the conflict box (a warning listing the supplied     *)
(* descriptions, or the "no conflicts" box) and one table row per step.    *)
(* The result is NoHTML for the empty string and RaisedHTML when reading   *)
(* step.node.depth of a step without node raises a TypeError.              *)
(***************************************************************************)
NoHTML == [kind |-> "empty"]
RaisedHTML == [kind |-> "raised"]

FieldOr(o, f, d) == IF Has(o, f) THEN o[f] ELSE d

\* operationColor and operationIcon of a step
OperationStyle(operation) ==
    IF operation = "START" THEN [color |-> "#2196F3", icon |-> "package"]
    ELSE IF operation = "CUT" THEN [color |-> "#ff5722", icon |-> "scissors"]
    ELSE IF operation = "SUB-BLOCK" THEN [color |-> "#9c27b0", icon |-> "triangle"]
    ELSE IF operation = "ITEM" THEN [color |-> "#4caf50", icon |-> "check"]
    ELSE [color |-> "#000", icon |-> ""]

\* StepRow numbering the rows itself instead of showing step.seq
StepRowRenumbered(step, index) ==
    LET node == step.node
        style == OperationStyle(FieldOr(step, "operation", "undefined"))
    IN  [bgColor |-> IF index % 2 = 0 THEN "#ffffff" ELSE "#f9f9f9",
         operationColor |-> style.color,
         operationIcon |-> style.icon,
         seq |-> index + 1,
         operation |-> FieldOr(step, "operation", "undefined"),
         indent |-> 2 * NumOr(node, "depth", 0),
         description |-> FieldOr(step, "description", "undefined"),
         volume |-> IF Has(node, "volume") /\ node.volume # 0
                    THEN [placeholder |-> FALSE, value |-> node.volume]
                    ELSE [placeholder |-> TRUE]]

\* the table row of the step at (0-based) index
StepRow(step, index) ==
    LET node == step.node
        style == OperationStyle(FieldOr(step, "operation", "undefined"))
    IN  [bgColor |-> IF index % 2 = 0 THEN "#ffffff" ELSE "#f9f9f9",
         operationColor |-> style.color,
         operationIcon |-> style.icon,
         seq |-> step.seq,
         operation |-> FieldOr(step, "operation", "undefined"),
         indent |-> 2 * NumOr(node, "depth", 0),
         description |-> FieldOr(step, "description", "undefined"),
         volume |-> IF Has(node, "volume") /\ node.volume # 0
                    THEN [placeholder |-> FALSE, value |-> node.volume]
                    ELSE [placeholder |-> TRUE]]

\* ConflictBox testing only that the list is there, not that it has entries
ConflictBoxAnyList(ct) ==
    IF TruthyArr(ct, "conflicts")
    THEN [kind |-> "warning", count |-> Len(ct.conflicts),
          lines |-> [i \in 1..Len(ct.conflicts) |->
                        FieldOr(ct.conflicts[i], "description", "undefined")]]
    ELSE [kind |-> "ok"]

ConflictBox(ct) ==
    IF TruthyArr(ct, "conflicts") /\ Len(ct.conflicts) > 0
    THEN [kind |-> "warning", count |-> Len(ct.conflicts),
          lines |-> [i \in 1..Len(ct.conflicts) |->
                        FieldOr(ct.conflicts[i], "description", "undefined")]]
    ELSE [kind |-> "ok"]

buildCuttingTreeHTML(ct) ==
    IF ct = Null \/ ~TruthyArr(ct, "sequence") THEN NoHTML
    ELSE IF \E i \in 1..Len(ct.sequence) : ~Has(ct.sequence[i], "node") THEN RaisedHTML
    ELSE [kind |-> "html",
          totals |-> [nodes |-> NumOr(ct, "total_nodes", 0),
                      cuts |-> NumOr(ct, "total_cuts", 0),
                      items |-> NumOr(ct, "total_items", 0)],
          conflictBox |-> ConflictBox(ct),
          rows |-> [i \in 1..Len(ct.sequence) |-> StepRow(ct.sequence[i], i - 1)]]

(***************************************************************************)
(* The scene functions of app.js.  blockWireframe and currentBlockDims are *)
(* module variables; the patch writes the window properties of the same    *)
(* names instead (winBlockWireframe, winCurrentBlockDims).                 *)
(***************************************************************************)
NonLights(objs) == {objs[i] : i \in {j \in 1..Len(objs) : ~IsLight(objs[j])}}

\* clearScene with the removal loop left out
clearSceneKeepingObjects(st) ==
    IF ~st.hasScene THEN st
    ELSE [st EXCEPT !.itemMeshes = <<>>, !.itemLabels = <<>>,
                    !.blockWireframe = Null]

\* clearScene: every object that is not a light is removed from the scene
\* and disposed, the module arrays are reset, the lights are restored when
\* none is left
clearScene(st) ==
    IF ~st.hasScene THEN st
    ELSE LET kept == SelectSeq(st.scene, IsLight)
         IN  [st EXCEPT !.scene = IF kept = <<>> THEN Lights ELSE kept,
                        !.disposed = NonLights(st.scene),
                        !.itemMeshes = <<>>, !.itemLabels = <<>>,
                        !.blockWireframe = Null]

\* addBlockWireframe: the state after the call and the value returned
addBlockWireframe(st, x, y, z, L, W, H) ==
    IF ~st.hasScene THEN [st |-> st, wireframe |-> Null]
    ELSE LET wireframe == [kind |-> "wireframe", gen |-> st.gen,
                           x |-> x, y |-> y, z |-> z, l |-> L, w |-> W, h |-> H]
         IN  [st |-> [st EXCEPT !.scene = Append(@, wireframe)],
              wireframe |-> wireframe]

\* visualizeSubBlocks and its renderNode: a box for every node of type
\* sub-block; reading the dimensions of a sub-block that has none raises
RECURSIVE renderNode(_, _)
RECURSIVE renderNodes(_, _, _)

renderNodes(children, i, st) ==
    IF i > Len(children) THEN st
    ELSE renderNodes(children, i + 1, renderNode(children[i], st))

renderNode(node, st) ==
    IF st.raised \/ node = Null THEN st
    ELSE LET isSub == Has(node, "type") /\ node.type = "sub-block"
             st1 == IF ~isSub THEN st
                    ELSE IF ~Has(node, "dimensions") \/ ~Has(node, "origin")
                    THEN [st EXCEPT !.raised = TRUE]
                    ELSE addBox(st, node.origin.x, node.origin.y, node.origin.z,
                                node.dimensions.L, node.dimensions.W, node.dimensions.H,
                                "0xaaaaaa", Null, TRUE, <<>>)
         IN  IF Has(node, "children") /\ Len(node.children) > 0
             THEN renderNodes(node.children, 1, st1)
             ELSE st1

visualizeSubBlocks(ct, st) ==
    IF ct = Null \/ ~TruthyArr(ct, "nodes") THEN st
    ELSE IF Len(ct.nodes) > 0 THEN renderNode(ct.nodes[1], st)
    ELSE st

\* buildTreeHTMLNew: the text lines of a tree of the current encoding
RECURSIVE buildTreeHTMLNew(_, _)
buildTreeHTMLNew(t, level) ==
    IF t = Null THEN <<>>
    ELSE IF TruthyId(t) /\ ~TruthyStr(t, "cut_dir") THEN
        <<[indent |-> 2 * level, item |-> t.item_id,
           l |-> NumOr(t, "length", 0), w |-> NumOr(t, "width", 0),
           h |-> NumOr(t, "height", 0)]>>
    ELSE IF TruthyStr(t, "cut_dir") THEN
        <<[indent |-> 2 * level, axis |-> t.cut_dir, pos |-> NumOr(t, "cut_pos", 0),
           l |-> NumOr(t, "length", 0), w |-> NumOr(t, "width", 0),
           h |-> NumOr(t, "height", 0)]>>
        \o (IF TruthyObj(t, "left_pattern")
            THEN buildTreeHTMLNew(t.left_pattern, level + 1) ELSE <<>>)
        \o (IF TruthyObj(t, "right_pattern")
            THEN buildTreeHTMLNew(t.right_pattern, level + 1) ELSE <<>>)
    ELSE <<>>

(***************************************************************************)
(* buildTreeHTML(tree, level): dispatches a node of the current encoding   *)
(* to buildTreeHTMLNew and formats the legacy encoding itself.  The line   *)
(* of a legacy leaf shows the bare id (field id), without the word "Item"  *)
(* of the current encoding (field item).                                   *)
(***************************************************************************)
RECURSIVE buildTreeHTML(_, _)
buildTreeHTML(t, level) ==
    IF t = Null THEN <<>>
    ELSE IF Has(t, "length") \/ Has(t, "cut_dir") THEN buildTreeHTMLNew(t, level)
    ELSE
    LET kind == IF Has(t, "kind") THEN t.kind ELSE ""
        box == IF Has(t, "box") THEN t.box ELSE <<0, 0, 0>>
    IN  IF kind = "leaf" /\ TruthyId(t) THEN
            <<[indent |-> 2 * level, id |-> t.item_id,
               l |-> box[1], w |-> box[2], h |-> box[3]]>>
        ELSE IF kind = "cut" THEN
            <<[indent |-> 2 * level,
               axis |-> IF TruthyStr(t, "axis") THEN t.axis ELSE "?",
               pos |-> NumOr(t, "pos", 0),
               l |-> box[1], w |-> box[2], h |-> box[3]]>>
            \o (IF Has(t, "children") /\ Len(t.children) >= 2
                THEN buildTreeHTML(t.children[1], level + 1)
                     \o buildTreeHTML(t.children[2], level + 1)
                ELSE <<>>)
        ELSE <<>>

\* calculateStatistics: the compatibility name of calculateStatisticsNew
calculateStatistics(t, dims) == calculateStatisticsNew(t, dims)

(***************************************************************************)
(* Number formatting and the colour of the statistics table.               *)
(***************************************************************************)
\* x.toFixed(digits) for the fraction x, as the integer x * 10^digits
\* rounded half away from zero; NaN and Infinity for a zero denominator
ToFixed(x, digits) ==
    IF x.den = 0 THEN [text |-> IF x.num = 0 THEN "NaN" ELSE "Infinity"]
    ELSE LET scale == IF digits = 2 THEN 100 ELSE IF digits = 1 THEN 10 ELSE 1
             n == Abs(x.num) * scale
             d == Abs(x.den)
             q == (2 * n + d) \div (2 * d)
         IN  [text |-> "number",
              scaled |-> IF (x.num < 0) # (x.den < 0) THEN -q ELSE q]

\* hue2rgb of hslToHex, all values scaled: p and q by 10000, t in degrees,
\* the result by 3600000
hue2rgb(p, q, t0) ==
    LET t == IF t0 < 0 THEN t0 + 360 ELSE IF t0 > 360 THEN t0 - 360 ELSE t0
    IN  IF t < 60 THEN p * 360 + (q - p) * 6 * t
        ELSE IF t < 180 THEN q * 360
        ELSE IF t < 240 THEN p * 360 + (q - p) * (240 - t) * 6
        ELSE p * 360

\* toHex of hslToHex: Math.round(x * 255) for x = v / 3600000
toHex(v) == (2 * 255 * (v \div 100) + 36000) \div 72000

\* hslToHex(h, s, l) for h in degrees, s and l in percent: <<r, g, b>>
hslToHex(h, sat, light) ==
    IF sat = 0 THEN LET v == toHex(light * 36000) IN <<v, v, v>>
    ELSE LET q == IF light < 50 THEN light * (100 + sat)
                  ELSE 100 * light + 100 * sat - light * sat
             pp == 200 * light - q
         IN  <<toHex(hue2rgb(pp, q, h + 120)), toHex(hue2rgb(pp, q, h)),
               toHex(hue2rgb(pp, q, h - 120))>>

\* getItemColorHex(itemId, itemIndex) of the mode switching script
getItemColorHex(itemId, itemIndex) ==
    LET hue == hues[(itemIndex % Len(hues)) + 1]
        hash == HashChars(Key(itemId), 1, 0)
        hueOffset == (Abs(hash) % 20) - 10
        saturation == 75 + (Abs(hash) % 20)
        lightness == 50 + (Abs(hash) % 15)
    IN  hslToHex(hue + hueOffset, saturation, lightness)

(***************************************************************************)
(* The two run handlers.  What the page supplies is fixed: the catalog     *)
(* parsed from the items field and the kerf.  A handler's synchronous part *)
(* after the response body has been read is one operator from the render   *)
(* state and the DOM to the render state, the DOM and whether an exception *)
(* was raised.  window.clearScene, window.addBox, window.camera and the    *)
(* other exports exist exactly when init3D has built the scene.            *)
(***************************************************************************)
Catalog == <<[id |-> 1, l |-> 5, w |-> 4, h |-> 6, qty |-> 2],
             [id |-> 2, l |-> 3, w |-> 2, h |-> 1, qty |-> 1]>>

PageKerf == 1

Max3(dims) ==
    LET m == IF dims[1] >= dims[2] THEN dims[1] ELSE dims[2]
    IN  IF m >= dims[3] THEN m ELSE dims[3]

\* the forEach over result.items_placed; the patch passes String(itemId) to
\* getItemColor and addBox (stringIds), app.js the id as received
RECURSIVE placeItems(_, _, _, _)
placeItems(placed, i, stringIds, st) ==
    IF i > Len(placed) \/ st.raised THEN st
    ELSE LET item == placed[i]
             itemId == item.item_id
             key == Key(itemId)
             passed == IF stringIds THEN Str(key) ELSE itemId
             st1 == IF InSeq(st.colorKeys, key) THEN st
                    ELSE [st EXCEPT !.colorKeys = Append(@, key),
                                    !.colorVals = Append(@, getItemColor(passed,
                                                            Len(st.colorKeys)))]
             color == st1.colorVals[IndexOf(st1.colorKeys, key)]
         IN  IF ~Has(item, "position") \/ ~Has(item, "dimensions")
             THEN [st1 EXCEPT !.raised = TRUE]
             ELSE placeItems(placed, i + 1, stringIds,
                             addBox(st1, item.position.x, item.position.y,
                                    item.position.z, item.dimensions.l,
                                    item.dimensions.w, item.dimensions.h,
                                    color, passed, FALSE, <<i>>))

HasPlaced(result) == TruthyArr(result, "items_placed") /\ Len(result.items_placed) > 0

\* the start of a handler's drawing: fresh itemColorMap and itemIndexMap;
\* gen, calls and before are history
BeginRender(st, id) ==
    [st EXCEPT !.gen = id, !.colorKeys = <<>>, !.colorVals = <<>>,
               !.calls = <<>>, !.raised = FALSE, !.before = NonLights(st.scene)]

\* history: what clearScene left of the earlier objects when the handler
\* goes on to add the new ones
AfterClear(st) == [st EXCEPT !.leftover = NonLights(st.scene)]

SetCamera(st, dims) ==
    [st EXCEPT !.camera = [position2 |-> 3 * Max3(dims),
                           target2 |-> <<dims[1], dims[3], dims[2]>>]]

NoCounts == [key \in {} |-> 0]

ItemCounts(result) == IF TruthyObj(result, "item_counts") THEN result.item_counts ELSE NoCounts

\* Number(key) for a key made of decimal digits (the empty string is 0)
RECURSIVE DigitsValue(_, _, _)
DigitsValue(cs, i, acc) ==
    IF i > Len(cs) THEN acc ELSE DigitsValue(cs, i + 1, acc * 10 + (cs[i] - 48))

\* n == key for a number n and a string key: the key is converted to a
\* number; a key with a character that is no digit converts to NaN here
LooseEq(n, key) ==
    /\ \A i \in 1..Len(key) : key[i] \in 48..57
    /\ DigitsValue(key, 1, 0) = n

\* items.find(it => it.id == itemId) and the volume of what it finds
CatalogVolume(key) ==
    LET found == {i \in 1..Len(Catalog) : LooseEq(Catalog[i].id, key)}
    IN  IF found = {} THEN 0
        ELSE LET it == Catalog[CHOOSE i \in found : \A j \in found : i <= j]
             IN  it.l * it.w * it.h

\* the statistics of the patch handler with the items counted from
\* items_placed instead of item_counts
PatchStatsRecounting(result, dims) ==
    LET totalVolume == dims[1] * dims[2] * dims[3]
        totalFilled == NumOr(result, "filled_volume", 0)
        placed == IF HasPlaced(result) THEN result.items_placed ELSE <<>>
        keys == {Key(placed[i].item_id) : i \in 1..Len(placed)}
        Count(key) == Cardinality({i \in 1..Len(placed) : Key(placed[i].item_id) = key})
    IN  [fillPercent |-> Frac(NumOr(result, "utilization", 0), 1),
         wastePercent |-> Frac(100 - NumOr(result, "utilization", 0), 1),
         totalFilled |-> totalFilled,
         totalWaste |-> totalVolume - totalFilled,
         totalVolume |-> totalVolume,
         items |-> [key \in keys |->
                       [id |-> Str(key), count |-> Count(key),
                        volume |-> CatalogVolume(key) * Count(key)]]]

\* the statistics of the patch handler
PatchStats(result, dims) ==
    LET totalVolume == dims[1] * dims[2] * dims[3]
        totalFilled == NumOr(result, "filled_volume", 0)
        counts == ItemCounts(result)
    IN  [fillPercent |-> Frac(NumOr(result, "utilization", 0), 1),
         wastePercent |-> Frac(100 - NumOr(result, "utilization", 0), 1),
         totalFilled |-> totalFilled,
         totalWaste |-> totalVolume - totalFilled,
         totalVolume |-> totalVolume,
         items |-> [key \in DOMAIN counts |->
                       [id |-> Str(key), count |-> counts[key],
                        volume |-> CatalogVolume(key) * counts[key]]]]

\* the statistics of the app.js handler: from the response, from the tree,
\* or the empty default
AppStats(result, dims) ==
    LET totalVolume == dims[1] * dims[2] * dims[3]
        counts == ItemCounts(result)
    IN  IF HasPlaced(result) THEN
            [fillPercent |-> Frac(NumOr(result, "utilization", 0), 1),
             wastePercent |-> Frac(100 - NumOr(result, "utilization", 0), 1),
             totalFilled |-> NumOr(result, "filled_volume", 0),
             totalWaste |-> NumOr(result, "waste", 0),
             totalVolume |-> totalVolume,
             items |-> [key \in DOMAIN counts |->
                           [id |-> Str(key), count |-> counts[key], volume |-> 0]]]
        ELSE IF TruthyObj(result, "tree") THEN calculateStatisticsNew(result.tree, dims)
        ELSE [fillPercent |-> Frac(0, 1), wastePercent |-> Frac(100, 1),
              totalFilled |-> 0, totalWaste |-> totalVolume,
              totalVolume |-> totalVolume, items |-> NoItems]

\* stats.items[item.id] || {count: 0, volume: 0}
ItemStats(stat, id) ==
    IF DecStr(id) \in DOMAIN stat.items THEN stat.items[DecStr(id)]
    ELSE [count |-> 0, volume |-> 0]

\* window.updateStatsTable(items, stat, blockL, blockW, blockH): one row
\* per catalog item and the footer
updateStatsTable(items, stat, dims) ==
    LET totalVolume == dims[1] * dims[2] * dims[3]
    IN  [display |-> "block",
         rows |-> [i \in 1..Len(items) |->
                     LET item == items[i]
                         itemStats == ItemStats(stat, item.id)
                         volume == item.l * item.w * item.h
                     IN  [color |-> getItemColorHex(Num(item.id), i - 1),
                          id |-> item.id,
                          size |-> <<item.l, item.w, item.h>>,
                          itemPercent |-> ToFixed(Frac(volume * 100, totalVolume), 2),
                          count |-> itemStats.count,
                          totalItemPercent |->
                              ToFixed(Frac(volume * itemStats.count * 100, totalVolume), 2)]],
         blockVolume |-> "100%",
         filledVolume |-> ToFixed(stat.fillPercent, 2),
         wasteVolume |-> ToFixed(stat.wastePercent, 2),
         utilizationPercent |-> ToFixed(stat.fillPercent, 2)]

\* the report of the patch handler: the two percentages
PatchReport(stat) ==
    [kind |-> "report", fill |-> ToFixed(stat.fillPercent, 2),
     waste |-> ToFixed(stat.wastePercent, 2), items |-> <<>>]

\* the report of the app.js handler: the two percentages and, when the
\* statistics name an item, one line per catalog item in id order (the
\* catalog is in id order)
AppReport(stat, st) ==
    [kind |-> "report", fill |-> ToFixed(stat.fillPercent, 2),
     waste |-> ToFixed(stat.wastePercent, 2),
     items |-> IF DOMAIN stat.items = {} THEN <<>>
               ELSE [i \in 1..Len(Catalog) |->
                       LET item == Catalog[i]
                           itemStats == ItemStats(stat, item.id)
                       IN  [id |-> item.id, count |-> itemStats.count,
                            percent |-> ToFixed(Frac(itemStats.volume * 100,
                                                     stat.totalVolume), 1),
                            color |-> IF InSeq(st.colorKeys, DecStr(item.id))
                                      THEN st.colorVals[IndexOf(st.colorKeys,
                                                                DecStr(item.id))]
                                      ELSE [hex |-> "888888"]]]]

\* what a handler leaves when it raises with the render state st
Thrown(st, dm, type) ==
    [st |-> [st EXCEPT !.raised = FALSE, !.colorKeys = <<>>, !.colorVals = <<>>],
     dom |-> dm, raised |-> TRUE, message |-> [type |-> type]]

\* what a handler leaves when it returns; stat is history, the statistics
\* the handler computed
Returned(st, dm, stat) ==
    [st |-> [st EXCEPT !.colorKeys = <<>>, !.colorVals = <<>>],
     dom |-> dm, raised |-> FALSE, message |-> [type |-> "none"], stat |-> stat]

\* the tree view after buildCuttingTreeHTML returned html
ShowTree(dm, html) ==
    IF html = NoHTML THEN dm
    ELSE [dm EXCEPT !.treeView = [display |-> "block", content |-> html]]

\* the block of the patch handler: read from the response in the reverse
\* and database modes, from the inputs (at the click) in the manual mode
PatchBlock(run, result) ==
    IF run.mode = "reverse" THEN
        IF result = Null \/ ~TruthyObj(result, "best_block_size") THEN Raised
        ELSE [raised |-> FALSE,
              dims |-> <<result.best_block_size.L, result.best_block_size.W,
                         result.best_block_size.H>>]
    ELSE IF run.mode = "database" THEN
        IF result = Null \/ ~TruthyObj(result, "best_block") THEN Raised
        ELSE [raised |-> FALSE,
              dims |-> <<result.best_block.length, result.best_block.width,
                         result.best_block.height>>]
    ELSE [raised |-> FALSE, dims |-> run.block]

\* the patch handler from the parsed response body to the end of its try
\* block
PatchRender(run, result, st0, dom0) ==
    LET blk == PatchBlock(run, result)
    IN  IF blk.raised THEN Thrown(st0, dom0, "TypeError")
        ELSE
        LET dims == blk.dims
            dom1 == IF run.mode = "manual" THEN dom0
                    ELSE [dom0 EXCEPT !.blockInputs = dims]
        IN  IF result = Null THEN Thrown(st0, dom1, "NoResponse")
            ELSE
            LET exported == st0.hasScene
                s1 == BeginRender(st0, run.id)
                s2 == AfterClear(IF exported THEN clearScene(s1) ELSE s1)
                s3 == [s2 EXCEPT !.winCurrentBlockDims = dims]
                wf == addBlockWireframe(s3, 0, 0, 0, dims[1], dims[2], dims[3])
                s4 == IF exported
                      THEN [wf.st EXCEPT !.winBlockWireframe = wf.wireframe]
                      ELSE s3
                s5 == IF TruthyObj(result, "cutting_tree") /\ exported
                      THEN visualizeSubBlocks(result.cutting_tree, s4)
                      ELSE s4
                s6 == IF HasPlaced(result) /\ exported
                      THEN placeItems(result.items_placed, 1, TRUE, s5)
                      ELSE s5
                s7 == IF exported THEN SetCamera(s6, dims) ELSE s6
                stat == PatchStats(result, dims)
                dom2 == [dom1 EXCEPT !.statsTable = updateStatsTable(Catalog, stat, dims),
                                     !.result = PatchReport(stat)]
                html == IF TruthyObj(result, "cutting_tree") /\ exported
                        THEN buildCuttingTreeHTML(result.cutting_tree)
                        ELSE NoHTML
            IN  IF s6.raised THEN Thrown(s6, dom1, "TypeError")
                ELSE IF html = RaisedHTML THEN Thrown(s7, dom2, "TypeError")
                ELSE Returned(s7, ShowTree(dom2, html), stat)

\* the app.js handler from the parsed response body to the end of its try
\* block
AppRender(run, result, st0, dom0) ==
    IF result = Null THEN Thrown(st0, dom0, "NoResponse")
    ELSE
    LET dims == run.block
        s1 == BeginRender(st0, run.id)
        s2 == AfterClear(clearScene(s1))
        s3 == [s2 EXCEPT !.currentBlockDims = dims]
        wf == addBlockWireframe(s3, 0, 0, 0, dims[1], dims[2], dims[3])
        s4 == [wf.st EXCEPT !.blockWireframe = wf.wireframe]
        s5 == IF HasPlaced(result)
              THEN placeItems(result.items_placed, 1, FALSE, s4)
              ELSE IF TruthyObj(result, "tree")
              THEN drawTreeNew(result.tree, dims, PageKerf, <<0, 0, 0>>, <<>>, s4)
              ELSE s4
        s6 == SetCamera(s5, dims)
        stat == AppStats(result, dims)
        dom1 == [dom0 EXCEPT !.result = AppReport(stat, s6)]
        html == IF TruthyObj(result, "cutting_tree")
                THEN buildCuttingTreeHTML(result.cutting_tree)
                ELSE NoHTML
        text == IF TruthyObj(result, "tree") THEN buildTreeHTMLNew(result.tree, 0)
                ELSE <<>>
    IN  IF s5.raised THEN Thrown(s5, dom0, "TypeError")
        ELSE IF ~st0.hasScene THEN Thrown(s5, dom0, "TypeError")
        ELSE IF stat = Raised THEN Thrown(s6, dom0, "TypeError")
        ELSE IF TruthyObj(result, "cutting_tree") THEN
            IF html = RaisedHTML THEN Thrown(s6, dom1, "TypeError")
            ELSE Returned(s6, ShowTree(dom1, html), stat)
        ELSE IF text # <<>> THEN
            Returned(s6, [dom1 EXCEPT !.treeView =
                             [display |-> "block",
                              content |-> [kind |-> "text", lines |-> text]]],
                     stat)
        ELSE Returned(s6, dom1, stat)

\* the catch block hiding the statistics table as well
CatchHidingTable(dm, message) ==
    [dm EXCEPT !.result = [kind |-> "error", message |-> message],
               !.statsTable = [display |-> "none"]]

\* the catch block: the error panel
Catch(dm, message) == [dm EXCEPT !.result = [kind |-> "error", message |-> message]]

LabelComputing == "Computing..."
LabelGenerate == "Generate"

\* the handler keeping the button enabled while it waits
DisableLabelOnly(btn) == [btn EXCEPT !.textContent = LabelComputing]

\* what both handlers do to the run button before the request is sent
Disable(btn) == [disabled |-> TRUE, textContent |-> LabelComputing]

\* a finally block that restores the label only
FinallyLabelOnly(btn) == [btn EXCEPT !.textContent = LabelGenerate]

\* the finally block of both handlers
Finally(btn) == [disabled |-> FALSE, textContent |-> LabelGenerate]

(***************************************************************************)
(* Trees handed to the traversals.  Leaves: well-formed ones, leaves with  *)
(* a zero or negative dimension, a leaf whose id is 0, a leaf without      *)
(* dimensions, a node without id and a node of neither encoding.  Cuts:    *)
(* the three axes and an unknown one, cut_pos absent or 0..MaxPos, either  *)
(* child possibly absent; a second level of cuts over a smaller set.       *)
(***************************************************************************)
Leaf(id, l, w, h) == [item_id |-> id, length |-> l, width |-> w, height |-> h]

GoodLeaves ==
    {Leaf(Num(1), 3, 2, 1), Leaf(Str(<<50>>), 3, 2, 1), Leaf(Num(1), 2, 2, 2)}

DegenerateLeaves ==
    {Leaf(Num(1), d[1], d[2], d[3]) :
        d \in {<<0, 2, 1>>, <<3, 0, 1>>, <<3, 2, 0>>,
               <<-1, 2, 1>>, <<3, -2, 1>>, <<3, 2, -1>>}}

OddLeaves ==
    {Leaf(Num(0), 3, 2, 1), [item_id |-> Num(1)],
     [length |-> 3, width |-> 2, height |-> 1], [other |-> 1]}

Leaves == GoodLeaves \cup DegenerateLeaves \cup OddLeaves

Kerfs == 0..MaxKerf
CutPositions == 0..MaxPos
Axes == {"V", "D", "H"}

\* the cut nodes with a left child of lefts and a right child of rights, a
\* field possibly absent
CutsOver(dirs, positions, lefts, rights, mayLack) ==
    {[cut_dir |-> d, cut_pos |-> p, left_pattern |-> a, right_pattern |-> b] :
        d \in dirs, p \in positions, a \in lefts, b \in rights}
    \cup (IF mayLack
          THEN {[cut_dir |-> d, left_pattern |-> a, right_pattern |-> b] :
                    d \in dirs, a \in lefts, b \in rights}
               \cup {[cut_dir |-> d, cut_pos |-> p, left_pattern |-> a] :
                    d \in dirs, p \in positions, a \in lefts}
               \cup {[cut_dir |-> d, cut_pos |-> p, right_pattern |-> b] :
                    d \in dirs, p \in positions, b \in rights}
               \cup {[cut_dir |-> d, cut_pos |-> p, left_pattern |-> Null,
                      right_pattern |-> b] :
                    d \in dirs, p \in positions, b \in rights}
               \cup {[cut_dir |-> d, cut_pos |-> p] : d \in dirs, p \in positions}
          ELSE {})

FewLeaves == {Leaf(Num(1), 3, 2, 1), Leaf(Str(<<50>>), 3, 2, 1)}

Cuts1 ==
    CutsOver(Axes \cup {"X"}, CutPositions, Leaves, FewLeaves, TRUE)
    \cup CutsOver(Axes \cup {"X"}, CutPositions, FewLeaves, Leaves, TRUE)

InnerCuts == CutsOver(Axes, {MaxPos}, {Leaf(Num(1), 3, 2, 1)}, FewLeaves, FALSE)

Cuts2 ==
    CutsOver(Axes, {MaxPos},
             InnerCuts \cup {Leaf(Num(1), 2, 2, 2), Leaf(Num(1), 0, 2, 1)},
             InnerCuts \cup {Leaf(Num(1), 2, 2, 2), Leaf(Num(1), 0, 2, 1)}, FALSE)

Trees == Leaves \cup Cuts1 \cup Cuts2

Blocks == {<<10, 8, 6>>, <<0, 8, 6>>}

(***************************************************************************)
(* The legacy encoding of a tree of the current encoding, field by field:  *)
(* cut_dir -> axis, cut_pos -> pos, left/right_pattern -> children,        *)
(* length/width/height -> box.  Defined for complete trees.                *)
(***************************************************************************)
RECURSIVE Complete(_)
Complete(t) ==
    IF t = Null THEN FALSE
    ELSE IF Has(t, "cut_dir")
    THEN /\ DOMAIN t = {"cut_dir", "cut_pos", "left_pattern", "right_pattern"}
         /\ Complete(t.left_pattern) /\ Complete(t.right_pattern)
    ELSE DOMAIN t = {"item_id", "length", "width", "height"}

RECURSIVE Legacy(_)
Legacy(t) ==
    IF Has(t, "cut_dir")
    THEN [kind |-> "cut", axis |-> t.cut_dir, pos |-> t.cut_pos,
          children |-> <<Legacy(t.left_pattern), Legacy(t.right_pattern)>>]
    ELSE [kind |-> "leaf", item_id |-> t.item_id,
          box |-> <<t.length, t.width, t.height>>]

(***************************************************************************)
(* The traversals applied to one tree.                                     *)
(***************************************************************************)
IdleFormat == cuttingTree = Null /\ report = Pending

EmptyDom ==
    [mode |-> "manual", blockInputs |-> <<10, 8, 6>>,
     result |-> [kind |-> "empty"],
     treeView |-> [display |-> "none", content |-> NoHTML],
     statsTable |-> [display |-> "none"]]

IdleHandle == request = Null /\ handled = Pending

IdleColor == colorCall = Null /\ colorResult = <<>>

IdleNode ==
    /\ anyTree = Null /\ nodeDrawn = Pending
    /\ nodeStats = Pending /\ nodeHTML = Pending

IdleLoad == loading = Null

IdlePage ==
    /\ onclick = "app"
    /\ runBtn = [disabled |-> FALSE, textContent |-> LabelGenerate]
    /\ inflight = <<>>
    /\ clicks = 0
    /\ view = EmptyRender(TRUE)
    /\ dom = EmptyDom

InitTree ==
    /\ IdleFormat
    /\ IdlePage
    /\ IdleHandle
    /\ IdleColor
    /\ IdleNode
    /\ IdleLoad
    /\ tree \in Trees
    /\ blockDims \in Blocks
    /\ kerf \in Kerfs
    /\ drawn = Pending
    /\ drawnOld = Pending
    /\ stats = Pending
    /\ statsOld = Pending
    /\ redrawn = Pending

DrawTreeNew ==
    /\ drawn = Pending
    /\ drawn' = drawTreeNew(tree, blockDims, kerf, <<0, 0, 0>>, <<>>, EmptyRender(TRUE))
    /\ UNCHANGED <<tree, blockDims, kerf, drawnOld, stats, statsOld, redrawn, formatVars, pageVars, handleVars, colorVars, nodeVars, loadVars>>

DrawTree ==
    /\ drawnOld = Pending
    /\ Complete(tree)
    /\ drawnOld' = drawTree(Legacy(tree), blockDims, kerf, <<0, 0, 0>>, <<>>,
                            EmptyRender(TRUE))
    /\ UNCHANGED <<tree, blockDims, kerf, drawn, stats, statsOld, redrawn, formatVars, pageVars, handleVars, colorVars, nodeVars, loadVars>>

CalculateStatisticsNew ==
    /\ stats = Pending
    /\ stats' = calculateStatisticsNew(tree, blockDims)
    /\ UNCHANGED <<tree, blockDims, kerf, drawn, drawnOld, statsOld, redrawn, formatVars,
                   pageVars, handleVars, colorVars, nodeVars, loadVars>>

\* calculateStatistics on the legacy form of the tree
CalculateStatistics ==
    /\ statsOld = Pending
    /\ Complete(tree)
    /\ statsOld' = calculateStatisticsNew(Legacy(tree), blockDims)
    /\ UNCHANGED <<tree, blockDims, kerf, drawn, drawnOld, stats, redrawn, formatVars,
                   pageVars, handleVars, colorVars, nodeVars, loadVars>>

\* drawTreeNew run twice on the tree
DrawTreeNewTwice ==
    /\ redrawn = Pending
    /\ redrawn' = drawTreeNewTwice(tree, blockDims, kerf, <<0, 0, 0>>)
    /\ UNCHANGED <<tree, blockDims, kerf, drawn, drawnOld, stats, statsOld, formatVars,
                   pageVars, handleVars, colorVars, nodeVars, loadVars>>

NextTree ==
    \/ DrawTreeNew \/ DrawTree \/ CalculateStatisticsNew \/ CalculateStatistics
    \/ DrawTreeNewTwice

SpecTree == InitTree /\ [][NextTree]_vars

(***************************************************************************)
(* Properties of the reconstruction and of the fallback statistics.        *)
(***************************************************************************)
RECURSIVE NodeAt(_, _)
NodeAt(t, path) ==
    IF path = <<>> THEN t
    ELSE NodeAt(IF Head(path) = 0 THEN t.left_pattern ELSE t.right_pattern, Tail(path))

IsMesh(obj) == obj.kind = "mesh"
Meshes(st) == SelectSeq(st.scene, IsMesh)

Placement(m) ==
    [itemId |-> m.itemId, x |-> m.x, y |-> m.y, z |-> m.z,
     l |-> m.l, w |-> m.w, h |-> m.h]

PlacementSet(st) == {Placement(Meshes(st)[i]) : i \in 1..Len(Meshes(st))}

CallsAt(st, path) == {i \in 1..Len(st.calls) : st.calls[i].path = path}

MeshesAt(st, path) == {i \in 1..Len(Meshes(st)) : Meshes(st)[i].path = path}

\* the one call made for the node at path was made at origin
CalledOnceAt(st, path, origin) ==
    /\ Cardinality(CallsAt(st, path)) = 1
    /\ \A i \in CallsAt(st, path) : st.calls[i].origin = origin

\* C1: at every cut node that drawTreeNew reaches at origin (x,y,z), with
\* cut position p and kerf k, the left subtree is drawn at (x,y,z) and the
\* right subtree at the origin with p+k added to x for axis V, to y for axis
\* D, to z for axis H, the other two coordinates unchanged.
C1_OffsetCorrect ==
    drawn # Pending =>
        \A i \in 1..Len(drawn.calls) :
            LET o == drawn.calls[i].origin
                path == drawn.calls[i].path
                n == NodeAt(tree, path)
                d == (IF Has(n, "cut_pos") THEN n.cut_pos ELSE 0) + kerf
            IN  (TruthyStr(n, "cut_dir") /\ n.cut_dir \in Axes) =>
                    /\ TruthyObj(n, "left_pattern") =>
                           CalledOnceAt(drawn, Append(path, 0), o)
                    /\ TruthyObj(n, "right_pattern") =>
                           CalledOnceAt(drawn, Append(path, 1),
                               IF n.cut_dir = "V" THEN <<o[1] + d, o[2], o[3]>>
                               ELSE IF n.cut_dir = "D" THEN <<o[1], o[2] + d, o[3]>>
                               ELSE <<o[1], o[2], o[3] + d>>)

\* a right subtree of a right subtree was drawn at an origin moved along
\* two different axes
C1_Witness ==
    /\ drawn # Pending
    /\ \E i \in 1..Len(drawn.calls) :
           /\ drawn.calls[i].path = <<1, 1>>
           /\ Cardinality({c \in 1..3 : drawn.calls[i].origin[c] > 0}) = 2

IsLeafNode(n) == n # Null /\ TruthyId(n) /\ ~TruthyStr(n, "cut_dir")

DimFields == {"length", "width", "height"}

Degenerate(n) == \E f \in DimFields : Has(n, f) /\ n[f] <= 0

Positive(n) == \A f \in DimFields : Has(n, f) /\ n[f] > 0

\* the leaves of the complete tree t
RECURSIVE LeavesOf(_)
LeavesOf(t) ==
    IF Has(t, "cut_dir")
    THEN LeavesOf(t.left_pattern) \cup LeavesOf(t.right_pattern)
    ELSE {t}

NonNegative(n) == \A f \in DimFields : Has(n, f) /\ n[f] >= 0

\* C2: a tree in the legacy encoding and the same tree in the current
\* encoding, with the same axis letters, positions and kerf, give the same
\* set of placements.  Stated for trees whose leaves have positive
\* dimensions, where the two encodings carry the same numbers.
C2_SchemaEquivalence ==
    (drawn # Pending /\ drawnOld # Pending /\ (\A n \in LeavesOf(tree) : Positive(n))) =>
        PlacementSet(drawn) = PlacementSet(drawnOld)

\* C3: a leaf with a zero or negative length, width or height adds no box,
\* and every other leaf of the tree is still added.
C3_DegenerateLeafDropped ==
    drawn # Pending =>
        \A i \in 1..Len(drawn.calls) :
            LET path == drawn.calls[i].path
                n == NodeAt(tree, path)
            IN  IsLeafNode(n) =>
                    /\ Degenerate(n) => MeshesAt(drawn, path) = {}
                    /\ Positive(n) => Cardinality(MeshesAt(drawn, path)) = 1

RECURSIVE SumVolume(_, _)
SumVolume(ms, i) ==
    IF i > Len(ms) THEN 0
    ELSE ms[i].l * ms[i].w * ms[i].h + SumVolume(ms, i + 1)

\* C4: for a tree made only of cuts and leaves, the volumes of the boxes
\* drawTreeNew adds sum to the totalFilled of calculateStatisticsNew.
\* Stated for trees without a negative dimension.
C4_VolumeConserved ==
    (/\ drawn # Pending /\ stats # Pending
     /\ Complete(tree) /\ \A n \in LeavesOf(tree) : NonNegative(n)) =>
        /\ stats # Raised
        /\ SumVolume(Meshes(drawn), 1) = stats.totalFilled

\* path p lies to the left of path q in the tree
PathBefore(p, q) ==
    \E i \in 1..Len(p) :
        /\ i <= Len(q)
        /\ p[i] = 0 /\ q[i] = 1
        /\ \A j \in 1..(i - 1) : p[j] = q[j]

InTreeOrder(st) ==
    \A i, j \in 1..Len(Meshes(st)) :
        i < j => PathBefore(Meshes(st)[i].path, Meshes(st)[j].path)

\* C5: boxes are added depth first, left before right: of two boxes, the
\* one added first comes from the leaf further left in the tree, with
\* drawTreeNew and with drawTree.
C5_EmissionOrder ==
    /\ drawn # Pending => InTreeOrder(drawn)
    /\ drawnOld # Pending => InTreeOrder(drawnOld)

\* both traversals added the four leaves of a two-level tree
C5_Witness ==
    /\ drawn # Pending /\ Len(Meshes(drawn)) = 4
    /\ drawnOld # Pending /\ Len(Meshes(drawnOld)) = 4

(***************************************************************************)
(* The formatter applied to one cutting program.  Steps carry the node     *)
(* record the formatter reads (depth and volume optional) or lack it; the  *)
(* conflicts list is absent, empty or holds one or two entries.      *)
(***************************************************************************)
Operations == {"START", "CUT", "SUB-BLOCK", "SUB_BLOCK", "ITEM", "OTHER"}

StepNodes ==
    {[depth |-> d, volume |-> v] : d \in 0..MaxDepth, v \in {0, 6}}
    \cup {[depth |-> MaxDepth], [volume |-> 6]}

Steps ==
    {[seq |-> q, operation |-> op, description |-> "step",
      node |-> [depth |-> MaxDepth, volume |-> 6]] :
        q \in 1..MaxSeq, op \in Operations}
    \cup {[seq |-> 1, operation |-> "CUT", description |-> "step", node |-> nd] :
            nd \in StepNodes}
    \cup {[seq |-> q, operation |-> "CUT", description |-> "step", depth |-> 1,
           volume |-> 6] : q \in 1..MaxSeq}

StepSeqs == {<<>>} \cup {<<a>> : a \in Steps} \cup {<<a, b>> : a \in Steps, b \in Steps}

ConflictLists ==
    {<<>>, <<[description |-> "c1"]>>,
     <<[description |-> "c1"], [description |-> "c2"]>>,
     <<[description |-> "c2"], [description |-> "c1"]>>,
     <<[description |-> "c1"], [description |-> "c1"]>>}

CuttingTrees ==
    {[sequence |-> q, conflicts |-> c, total_nodes |-> Len(q)] :
        q \in StepSeqs, c \in ConflictLists}
    \cup {[sequence |-> q] : q \in StepSeqs}
    \cup {[conflicts |-> c, nodes |-> <<>>] : c \in ConflictLists}

IdleTree ==
    /\ tree = Null /\ blockDims = <<0, 0, 0>> /\ kerf = 0
    /\ drawn = Pending /\ drawnOld = Pending /\ stats = Pending
    /\ statsOld = Pending /\ redrawn = Pending

InitFormat ==
    /\ IdleTree
    /\ IdlePage
    /\ IdleHandle
    /\ IdleColor
    /\ IdleNode
    /\ IdleLoad
    /\ cuttingTree \in CuttingTrees
    /\ report = Pending

Format ==
    /\ report = Pending
    /\ report' = buildCuttingTreeHTML(cuttingTree)
    /\ UNCHANGED <<cuttingTree, treeVars, pageVars, handleVars, colorVars, nodeVars, loadVars>>

NextFormat == Format

SpecFormat == InitFormat /\ [][NextFormat]_vars

\* the cutting program has a sequence and every step carries its node
Formattable(ct) ==
    /\ Has(ct, "sequence")
    /\ \A i \in 1..Len(ct.sequence) : Has(ct.sequence[i], "node")

Modes == {"manual", "database", "reverse"}

PageBlocks == {<<10, 8, 6>>, <<12, 8, 6>>}

Statuses == {500}

Placed(id, x, y) ==
    [item_id |-> id, position |-> [x |-> x, y |-> y, z |-> 0],
     dimensions |-> [l |-> 5, w |-> 4, h |-> 6]]

SubBlock == [type |-> "sub-block", dimensions |-> [L |-> 10, W |-> 4, H |-> 6],
             origin |-> [x |-> 0, y |-> 0, z |-> 0]]

GoodCuttingTree ==
    [nodes |-> <<[type |-> "block", children |-> <<SubBlock>>]>>,
     sequence |-> <<[seq |-> 1, operation |-> "START", description |-> "block",
                     node |-> [depth |-> 0, volume |-> 480]],
                    [seq |-> 2, operation |-> "ITEM", description |-> "item 1",
                     node |-> [depth |-> 1, volume |-> 120]]>>,
     conflicts |-> <<>>,
     total_nodes |-> 2, total_cuts |-> 1, total_items |-> 2]

FlatCuttingTree ==
    [GoodCuttingTree EXCEPT !.sequence = <<[seq |-> 1, operation |-> "START",
                                            description |-> "block", depth |-> 0]>>]

BestBlock == [best_block |-> [length |-> 10, width |-> 8, height |-> 6],
              best_block_size |-> [L |-> 10, W |-> 8, H |-> 6]]

Merge(a, b) ==
    [f \in DOMAIN a \cup DOMAIN b |-> IF f \in DOMAIN a THEN a[f] ELSE b[f]]

PlacedResult ==
    [items_placed |-> <<Placed(Num(1), 0, 0), Placed(Num(1), 0, 4)>>,
     filled_volume |-> 240, utilization |-> 50, waste |-> 240,
     item_counts |-> [key \in {DecStr(1)} |-> 2]]

TreeResult ==
    [tree |-> [cut_dir |-> "V", cut_pos |-> 5, length |-> 10, width |-> 8,
               height |-> 6,
               left_pattern |-> [item_id |-> Num(1), length |-> 5, width |-> 4,
                                 height |-> 6],
               right_pattern |-> [item_id |-> Num(2), length |-> 3, width |-> 2,
                                  height |-> 1]]]

Responses ==
    { Null,
      PlacedResult,
      Merge(PlacedResult, BestBlock),
      Merge([cutting_tree |-> GoodCuttingTree], Merge(PlacedResult, BestBlock)),
      Merge([cutting_tree |-> FlatCuttingTree], Merge(PlacedResult, BestBlock)),
      Merge([items_placed |-> <<Placed(Num(2), 0, 0), [item_id |-> Num(1)]>>],
            Merge(PlacedResult, BestBlock)),
      Merge(TreeResult, BestBlock),
      Merge([items_placed |-> <<>>], BestBlock) }

Init ==
    /\ IdleTree
    /\ IdleFormat
    /\ IdleHandle
    /\ IdleColor
    /\ IdleNode
    /\ IdleLoad
    /\ onclick = "app"
    /\ runBtn = [disabled |-> FALSE, textContent |-> LabelGenerate]
    /\ inflight = <<>>
    /\ clicks = 0
    /\ view \in {EmptyRender(TRUE), EmptyRender(FALSE)}
    /\ dom = EmptyDom

\* the user picks another mode
SelectMode ==
    /\ \E m \in Modes \ {dom.mode} : dom' = [dom EXCEPT !.mode = m]
    /\ UNCHANGED <<onclick, runBtn, inflight, clicks, view, treeVars, formatVars, handleVars, colorVars, nodeVars, loadVars>>

\* the user types other block dimensions
TypeBlock ==
    /\ \E b \in PageBlocks \ {dom.blockInputs} : dom' = [dom EXCEPT !.blockInputs = b]
    /\ UNCHANGED <<onclick, runBtn, inflight, clicks, view, treeVars, formatVars, handleVars, colorVars, nodeVars, loadVars>>

\* initPatch replaces the handler of the run button
InitPatch ==
    /\ onclick = "app"
    /\ onclick' = "patch"
    /\ UNCHANGED <<runBtn, inflight, clicks, view, dom, treeVars, formatVars, handleVars, colorVars, nodeVars, loadVars>>

\* a click on the run button: the installed handler runs up to its fetch
Click ==
    /\ ~runBtn.disabled
    /\ clicks < MaxClicks
    /\ clicks' = clicks + 1
    /\ runBtn' = Disable(runBtn)
    /\ inflight' = Append(inflight,
                          [id |-> clicks + 1, handler |-> onclick, pc |-> "fetch",
                           mode |-> IF onclick = "patch" THEN dom.mode ELSE "manual",
                           block |-> IF onclick = "patch" /\ dom.mode # "manual"
                                     THEN <<0, 0, 0>> ELSE dom.blockInputs,
                           status |-> 0])
    /\ UNCHANGED <<onclick, view, dom, treeVars, formatVars, handleVars, colorVars, nodeVars, loadVars>>

Remove(seq, i) == [j \in 1..(Len(seq) - 1) |-> IF j < i THEN seq[j] ELSE seq[j + 1]]

\* the end of invocation i: catch when it raised, then finally
Finish(i, done) ==
    /\ view' = done.st
    /\ dom' = IF done.raised THEN Catch(done.dom, done.message) ELSE done.dom
    /\ runBtn' = Finally(runBtn)
    /\ inflight' = Remove(inflight, i)
    /\ UNCHANGED <<onclick, clicks, treeVars, formatVars, handleVars, colorVars, nodeVars, loadVars>>

\* the fetch of an invocation settles: rejected, or fulfilled with a
\* response whose ok is false or true
FetchSettles ==
    \E i \in 1..Len(inflight) :
        /\ inflight[i].pc = "fetch"
        /\ \/ Finish(i, Thrown(view, dom, "NetworkError"))
           \/ /\ \E status \in Statuses :
                    inflight' = [inflight EXCEPT ![i].pc = "text", ![i].status = status]
              /\ UNCHANGED <<onclick, runBtn, clicks, view, dom, treeVars, formatVars, handleVars, colorVars, nodeVars, loadVars>>
           \/ /\ inflight' = [inflight EXCEPT ![i].pc = "json"]
              /\ UNCHANGED <<onclick, runBtn, clicks, view, dom, treeVars, formatVars, handleVars, colorVars, nodeVars, loadVars>>

\* response.text() of a response that is not ok settles and the handler
\* throws the HTTP error
TextSettles ==
    \E i \in 1..Len(inflight) :
        /\ inflight[i].pc = "text"
        /\ Finish(i, [Thrown(view, dom, "HTTP") EXCEPT
                         !.message = [type |-> "HTTP", status |-> inflight[i].status,
                                      text |-> "body"]])

\* response.json() settles: rejected for a body that is not JSON, or the
\* handler goes on with the parsed body to the end
JsonSettles ==
    \E i \in 1..Len(inflight) :
        /\ inflight[i].pc = "json"
        /\ \/ Finish(i, Thrown(view, dom, "SyntaxError"))
           \/ \E result \in Responses :
                 Finish(i, IF inflight[i].handler = "patch"
                           THEN PatchRender(inflight[i], result, view, dom)
                           ELSE AppRender(inflight[i], result, view, dom))

Next ==
    \/ SelectMode
    \/ TypeBlock
    \/ InitPatch
    \/ Click
    \/ FetchSettles
    \/ TextSettles
    \/ JsonSettles

Spec == Init /\ [][Next]_vars

(***************************************************************************)
(* Properties of the page.                                                 *)
(***************************************************************************)
InScene(obj) == InSeq(view.scene, obj)

Enabled(btn) == ~btn.disabled /\ btn.textContent = LabelGenerate

\* C8: scene replacement.  Every object of the scene that is not a light,
\* every entry of itemMeshes and every entry of itemLabels was created for
\* the result drawn last; the objects of the result before it were all
\* disposed and are no longer in the scene, and none of them was left when
\* the first object of the new result was added.
C8_SceneReplaced ==
    /\ \A i \in 1..Len(view.scene) :
           ~IsLight(view.scene[i]) => view.scene[i].gen = view.gen
    /\ \A i \in 1..Len(view.itemMeshes) :
           view.itemMeshes[i].gen = view.gen /\ InScene(view.itemMeshes[i])
    /\ \A i \in 1..Len(view.itemLabels) : view.itemLabels[i].gen = view.gen
    /\ view.leftover = {}
    /\ view.before \subseteq view.disposed
    /\ \A obj \in view.before : ~InScene(obj)

\* a second result drawn successfully over the objects of an earlier one
C8_Witness ==
    /\ inflight = <<>>
    /\ dom.result.kind = "report"
    /\ view.gen >= 2
    /\ view.before # {}
    /\ Len(view.itemMeshes) > 0
    /\ \E i \in 1..Len(view.scene) : view.scene[i].kind = "wireframe"

\* C9: whenever an invocation of the run handler ends - whatever the way -
\* the step that ends it leaves the run button enabled with its label
\* restored, and whenever no invocation is under way the button is enabled
\* with that label.
C9_ButtonRestored ==
    /\ [](inflight = <<>> => Enabled(runBtn))
    /\ [][Len(inflight') < Len(inflight) => Enabled(runBtn')]_vars

\* the handler has ended by an exception raised while drawing and the
\* button is enabled again
C9_Witness ==
    /\ clicks >= 1
    /\ inflight = <<>>
    /\ dom.result.kind = "error"
    /\ dom.result.message.type = "TypeError"
    /\ view.gen = clicks
    /\ Enabled(runBtn)

\* C10: at most one request is in flight; while it is, the run button is
\* disabled; it is the request started last, and the scene shows the result
\* of an older request than every request in flight - so no response
\* draws over the scene of a request started after its own.
C10_OneInFlight ==
    /\ Len(inflight) <= 1
    /\ inflight # <<>> => runBtn.disabled
    /\ \A i \in 1..Len(inflight) :
           inflight[i].id = clicks /\ inflight[i].id > view.gen

\* a request in flight while the scene shows the result of an earlier one
C10_Witness ==
    /\ Len(inflight) = 1
    /\ runBtn.disabled
    /\ clicks >= 2
    /\ view.gen = clicks - 1
    /\ Len(view.itemMeshes) > 0

(***************************************************************************)
(* One invocation of a run handler on a fresh page, from the parsed        *)
(* response to the end of the handler: the handlers as functions of the    *)
(* mode, the block typed and the response.                                 *)
(***************************************************************************)
HandleBlocks == {<<10, 8, 6>>, <<12, 8, 6>>, <<0, 8, 6>>}

Counts(keys, n) == [key \in keys |-> n]

TwoIdTree(a, b) ==
    [cut_dir |-> "V", cut_pos |-> 5, length |-> 10, width |-> 8, height |-> 6,
     left_pattern |-> [item_id |-> a, length |-> 5, width |-> 4, height |-> 6],
     right_pattern |-> [item_id |-> b, length |-> 3, width |-> 2, height |-> 1]]

HandleResponses ==
    { PlacedResult,
      Merge(PlacedResult, BestBlock),
      Merge([items_placed |-> <<Placed(Num(2), 0, 0)>>, filled_volume |-> 6,
             utilization |-> 1, item_counts |-> Counts({DecStr(2)}, 1)], BestBlock),
      Merge([items_placed |-> <<Placed(Str(DecStr(1)), 0, 0), Placed(Num(1), 0, 4)>>,
             filled_volume |-> 240, utilization |-> 50,
             item_counts |-> Counts({DecStr(1)}, 2)], BestBlock),
      Merge([items_placed |-> <<Placed(Num(2), 0, 0), Placed(Num(1), 0, 4)>>,
             filled_volume |-> 126, utilization |-> 30, waste |-> 100,
             item_counts |-> Counts({DecStr(1), DecStr(2)}, 1)], BestBlock),
      Merge([items_placed |-> <<Placed(Num(7), 0, 0)>>, filled_volume |-> 120,
             item_counts |-> Counts({DecStr(7)}, 1)], BestBlock),
      Merge([items_placed |-> <<Placed(Num(1), 0, 0)>>, filled_volume |-> 240,
             utilization |-> 50, waste |-> 240,
             item_counts |-> Counts({DecStr(1)}, 2)], BestBlock),
      Merge([items_placed |-> <<Placed(Num(1), 0, 0)>>], BestBlock),
      Merge(TreeResult, BestBlock),
      Merge([tree |-> TwoIdTree(Num(1), Str(DecStr(1)))], BestBlock),
      Merge([items_placed |-> <<>>], Merge(TreeResult, BestBlock)),
      Merge(TreeResult, Merge(PlacedResult, BestBlock)),
      Merge([items_placed |-> <<>>], BestBlock),
      BestBlock }

Requests ==
    {[id |-> 1, handler |-> "app", pc |-> "json", mode |-> "manual", block |-> b,
      status |-> 0, result |-> r] : b \in HandleBlocks, r \in HandleResponses}
    \cup {[id |-> 1, handler |-> "patch", pc |-> "json", mode |-> "manual",
           block |-> b, status |-> 0, result |-> r] :
              b \in HandleBlocks, r \in HandleResponses}
    \cup {[id |-> 1, handler |-> "patch", pc |-> "json", mode |-> m,
           block |-> <<0, 0, 0>>, status |-> 0, result |-> r] :
              m \in Modes \ {"manual"}, r \in HandleResponses}

InitHandle ==
    /\ IdleTree
    /\ IdleFormat
    /\ IdlePage
    /\ IdleColor
    /\ IdleNode
    /\ IdleLoad
    /\ request \in Requests
    /\ handled = Pending

\* the handler of the request runs on the response
Handle ==
    /\ handled = Pending
    /\ handled' = IF request.handler = "patch"
                  THEN PatchRender(request, request.result, view, dom)
                  ELSE AppRender(request, request.result, view, dom)
    /\ UNCHANGED <<request, treeVars, formatVars, pageVars, colorVars, nodeVars, loadVars>>

NextHandle == Handle

SpecHandle == InitHandle /\ [][NextHandle]_vars

(***************************************************************************)
(* Properties of one handler invocation.                                   *)
(***************************************************************************)
Done == handled # Pending /\ ~handled.raised

\* the block the handler of the request works with
BlockOf(req) ==
    IF req.mode = "manual" THEN req.block ELSE PatchBlock(req, req.result).dims

Volume(dims) == dims[1] * dims[2] * dims[3]

Box(m) == <<m.x, m.y, m.z, m.l, m.w, m.h>>

\* the boxes of the items (not the sub-blocks) in the scene of st
ItemBoxes(st) ==
    {Box(Meshes(st)[i]) : i \in {j \in 1..Len(Meshes(st)) : ~Meshes(st)[j].isSubBlock}}

PlacedBoxes(placed) ==
    {<<placed[i].position.x, placed[i].position.y, placed[i].position.z,
       placed[i].dimensions.l, placed[i].dimensions.w, placed[i].dimensions.h>> :
        i \in 1..Len(placed)}

\* C11: a handler that returns has drawn the placements of a non-empty
\* items_placed and reports the response's filled_volume and utilization;
\* without placements but with a tree it has drawn the boxes that
\* drawTreeNew reconstructs from the tree and reports the statistics
\* calculateStatisticsNew computes from the tree.
C11_ModeByAvailability ==
    Done =>
        LET r == request.result
            dims == BlockOf(request)
        IN  IF HasPlaced(r) THEN
                /\ ItemBoxes(handled.st) = PlacedBoxes(r.items_placed)
                /\ handled.stat.totalFilled = NumOr(r, "filled_volume", 0)
                /\ handled.stat.fillPercent = Frac(NumOr(r, "utilization", 0), 1)
            ELSE IF TruthyObj(r, "tree") THEN
                /\ ItemBoxes(handled.st) =
                       ItemBoxes(drawTreeNew(r.tree, dims, PageKerf, <<0, 0, 0>>, <<>>,
                                             EmptyRender(TRUE)))
                /\ handled.stat = calculateStatisticsNew(r.tree, dims)
            ELSE TRUE

\* equality of two fractions with non-zero denominators
FracEq(a, b) == a.num * b.den = b.num * a.den

\* C12: the statistics of a handler that returns have totalVolume =
\* blockL*blockW*blockH and totalWaste = totalVolume - totalFilled.
C12_TotalsConsistent ==
    Done =>
        /\ handled.stat.totalVolume = Volume(BlockOf(request))
        /\ handled.stat.totalWaste = handled.stat.totalVolume - handled.stat.totalFilled

\* C13: when totalVolume > 0, the statistics of a handler that returns have
\* fillPercent = 100*totalFilled/totalVolume and wastePercent = 100 -
\* fillPercent.
C13_PercentagesFromTotals ==
    (Done /\ handled.stat.totalVolume > 0) =>
        /\ FracEq(handled.stat.fillPercent,
                  Frac(100 * handled.stat.totalFilled, handled.stat.totalVolume))
        /\ FracEq(handled.stat.wastePercent,
                  Frac(100 * handled.stat.fillPercent.den - handled.stat.fillPercent.num,
                       handled.stat.fillPercent.den))

\* C14: when the volume of the block is 0, the statistics of a handler that
\* returns have fillPercent 0 and wastePercent 0.
C14_ZeroVolumeGuard ==
    (Done /\ Volume(BlockOf(request)) = 0) =>
        /\ handled.stat.fillPercent.num = 0
        /\ handled.stat.wastePercent.num = 0

DeclaredVolume(key) ==
    LET entries == {i \in 1..Len(Catalog) : DecStr(Catalog[i].id) = key}
    IN  IF entries = {} THEN 0
        ELSE LET it == Catalog[CHOOSE i \in entries : TRUE] IN it.l * it.w * it.h

\* C16: in the authoritative mode the volume reported for an item is the
\* declared volume of its catalog entry times item_counts[id], and 0 for an
\* id without catalog entry.
C16_VolumeFromCatalog ==
    (Done /\ HasPlaced(request.result) /\ Has(request.result, "item_counts")) =>
        \A key \in DOMAIN request.result.item_counts :
            /\ key \in DOMAIN handled.stat.items
            /\ handled.stat.items[key].volume =
                   DeclaredVolume(key) * request.result.item_counts[key]

(***************************************************************************)
(* Properties of the fallback statistics.                                  *)
(***************************************************************************)
\* the number and the summed volume of the leaves of the complete tree t
\* whose id has the key
RECURSIVE LeafTally(_, _)
LeafTally(t, key) ==
    IF Has(t, "cut_dir")
    THEN LET a == LeafTally(t.left_pattern, key)
             b == LeafTally(t.right_pattern, key)
         IN  [count |-> a.count + b.count, volume |-> a.volume + b.volume]
    ELSE IF Key(t.item_id) = key
    THEN [count |-> 1, volume |-> t.length * t.width * t.height]
    ELSE [count |-> 0, volume |-> 0]

RECURSIVE LeafTotal(_)
LeafTotal(t) ==
    IF Has(t, "cut_dir") THEN LeafTotal(t.left_pattern) + LeafTotal(t.right_pattern)
    ELSE t.length * t.width * t.height

\* the statistics s count every leaf of tree once
Tallied(s) ==
    /\ s # Raised
    /\ \A n \in LeavesOf(tree) :
           LET key == Key(n.item_id)
           IN  /\ key \in DOMAIN s.items
               /\ s.items[key].count = LeafTally(tree, key).count
               /\ s.items[key].volume = LeafTally(tree, key).volume
    /\ s.totalFilled = LeafTotal(tree)

\* C17: calculateStatisticsNew counts every leaf exactly once, for a tree
\* of the current encoding and for the same tree in the legacy encoding:
\* per id, count is the number of leaves and volume the sum of their
\* volumes, and totalFilled is the sum of all leaf volumes.  Stated for
\* trees made of cuts and leaves whose ids are not 0 or empty.
C17_LeavesCountedOnce ==
    (Complete(tree) /\ \A n \in LeavesOf(tree) : TruthyIdVal(n.item_id)) =>
        /\ stats # Pending => Tallied(stats)
        /\ statsOld # Pending => Tallied(statsOld)

(***************************************************************************)
(* Properties of the item identifiers and colors.                          *)
(***************************************************************************)
\* the decimal form of a numeric id, a string id as it is
Canon(id) == IF id.t = "num" THEN DecStr(id.n) ELSE id.s

\* the number of leaves of the complete tree t whose id has the form key
RECURSIVE CanonCount(_, _)
CanonCount(t, key) ==
    IF Has(t, "cut_dir")
    THEN CanonCount(t.left_pattern, key) + CanonCount(t.right_pattern, key)
    ELSE IF Canon(t.item_id) = key THEN 1 ELSE 0

ItemMeshes(st) ==
    {Meshes(st)[i] : i \in {j \in 1..Len(Meshes(st)) : ~Meshes(st)[j].isSubBlock}}

\* C18: a numeric id and its string form denote the same entry.  After a
\* handler returns: the statistics computed from a tree have, for every
\* leaf, one entry that counts the leaves with the id as a number and as a
\* string together; an item_counts key that is the string form of a catalog
\* id gets the volume of that catalog item and its count is shown in the
\* table row of that item; and boxes whose ids have the same form have the
\* same color.
C18_OneCoercionRule ==
    Done =>
        LET r == request.result
            stat == handled.stat
        IN  /\ (request.handler = "app" /\ ~HasPlaced(r) /\ TruthyObj(r, "tree")) =>
                   \A n \in LeavesOf(r.tree) :
                       /\ Canon(n.item_id) \in DOMAIN stat.items
                       /\ stat.items[Canon(n.item_id)].count =
                              CanonCount(r.tree, Canon(n.item_id))
            /\ (request.handler = "patch" /\ HasPlaced(r) /\ Has(r, "item_counts")) =>
                   \A i \in 1..Len(Catalog) :
                       LET key == DecStr(Catalog[i].id)
                       IN  key \in DOMAIN r.item_counts =>
                               /\ key \in DOMAIN stat.items
                               /\ stat.items[key].volume =
                                      DeclaredVolume(key) * r.item_counts[key]
                               /\ handled.dom.statsTable.rows[i].count =
                                      r.item_counts[key]
            /\ \A a \in ItemMeshes(handled.st), b \in ItemMeshes(handled.st) :
                   Canon(a.itemId) = Canon(b.itemId) => a.color = b.color

\* a tree with the id 1 on one leaf and the id "1" on another has been
\* counted into one entry
C18_Witness ==
    /\ Done
    /\ request.handler = "app"
    /\ ~HasPlaced(request.result)
    /\ TruthyObj(request.result, "tree")
    /\ {n.item_id : n \in LeavesOf(request.result.tree)} = {Num(1), Str(DecStr(1))}
    /\ DOMAIN handled.stat.items = {DecStr(1)}
    /\ handled.stat.items[DecStr(1)].count = 2

\* C19: after the patch handler returns, every item box of the scene whose
\* id is listed in the statistics table has the color of the swatch of its
\* table row (the color of the box converted as the table converts its
\* own).
C19_ColorConsistency ==
    (Done /\ request.handler = "patch") =>
        \A m \in ItemMeshes(handled.st) :
            \A i \in 1..Len(Catalog) :
                Canon(m.itemId) = DecStr(Catalog[i].id) =>
                    hslToHex(m.color.h, m.color.s, m.color.l) =
                        handled.dom.statsTable.rows[i].color

(***************************************************************************)
(* The color functions called one call after another.                      *)
(***************************************************************************)
ColorIds == {Num(1), Num(12), Str(DecStr(1)), Str(DecStr(2)), Str(<<65, 49>>)}

ColorCalls == [itemId : ColorIds, itemIndex : 0..MaxIndex]

OtherCall == [itemId |-> Str(DecStr(7)), itemIndex |-> 3]

InitColor ==
    /\ IdleTree
    /\ IdleFormat
    /\ IdlePage
    /\ IdleHandle
    /\ IdleNode
    /\ IdleLoad
    /\ colorCall \in ColorCalls
    /\ colorResult = <<>>

\* getItemColor and getItemColorHex are called with colorCall, with
\* colorCall ten places further in the palette, or with other arguments
CallColor ==
    /\ Len(colorResult) < MaxCalls
    /\ \E args \in {colorCall, [colorCall EXCEPT !.itemIndex = @ + 10], OtherCall} :
           colorResult' = Append(colorResult,
                                 [itemId |-> args.itemId, itemIndex |-> args.itemIndex,
                                  color |-> getItemColor(args.itemId, args.itemIndex),
                                  hex |-> getItemColorHex(args.itemId, args.itemIndex)])
    /\ UNCHANGED <<colorCall, treeVars, formatVars, pageVars, handleVars, nodeVars, loadVars>>

NextColor == CallColor

SpecColor == InitColor /\ [][NextColor]_vars

Palette == <<0, 30, 60, 120, 180, 210, 240, 270, 300, 330>>

\* C20: two calls of the color functions with the same id and with indexes
\* equal modulo 10 return the same color, whatever was called in between,
\* and the hue without the offset derived from the id (saturation - 85) is
\* the palette entry at index mod 10.
C20_ColorDeterminism ==
    /\ \A i \in 1..Len(colorResult), j \in 1..Len(colorResult) :
           (/\ colorResult[i].itemId = colorResult[j].itemId
            /\ colorResult[i].itemIndex % 10 = colorResult[j].itemIndex % 10) =>
               /\ colorResult[i].color = colorResult[j].color
               /\ colorResult[i].hex = colorResult[j].hex
    /\ \A i \in 1..Len(colorResult) :
           colorResult[i].color.h - (colorResult[i].color.s - 85) =
               Palette[(colorResult[i].itemIndex % 10) + 1]

\* the same arguments before and after a call with other arguments, and
\* ten places further in the palette
C20_Witness ==
    /\ Len(colorResult) = 3
    /\ colorResult[1].itemId = colorCall.itemId
    /\ colorResult[1].itemIndex = 3
    /\ colorResult[2].itemId # colorCall.itemId
    /\ colorResult[3].itemId = colorCall.itemId
    /\ colorResult[3].itemIndex = 13
    /\ colorResult[1].color = colorResult[3].color

(***************************************************************************)
(* The compatibility functions drawTree, calculateStatistics and           *)
(* buildTreeHTML applied to one tree of either encoding.  Children are     *)
(* leaves of both encodings, nodes that match neither encoding (null, an   *)
(* object without the fields of a node, a cut without children, a legacy   *)
(* cut with one child) and legacy nodes that also carry one field of the   *)
(* current encoding.                                                       *)
(***************************************************************************)
LegacyLeaf(id, box) == [kind |-> "leaf", item_id |-> id, box |-> box]

LegacyCut(axis, pos, children) ==
    [kind |-> "cut", axis |-> axis, pos |-> pos, children |-> children]

CurrentLeaves == {Leaf(Num(1), 3, 2, 1), Leaf(Str(<<50>>), 2, 2, 2)}

LegacyLeaves == {LegacyLeaf(Num(1), <<3, 2, 1>>), LegacyLeaf(Str(<<50>>), <<2, 2, 2>>)}

UnrecognizedNodes ==
    {Null, [other |-> 1],
     [kind |-> "cut", axis |-> "V", pos |-> MaxPos],
     [cut_dir |-> "V", cut_pos |-> MaxPos],
     LegacyCut("V", MaxPos, <<LegacyLeaf(Num(1), <<3, 2, 1>>)>>)}

MixedNodes ==
    {Merge(LegacyLeaf(Num(1), <<3, 2, 1>>), extra) :
        extra \in {[length |-> 2], [width |-> 2], [height |-> 2]}}
    \cup {Merge(LegacyCut("V", MaxPos, <<LegacyLeaf(Num(1), <<3, 2, 1>>),
                                         LegacyLeaf(Num(1), <<3, 2, 1>>)>>), extra) :
            extra \in {[width |-> 2], [cut_dir |-> "D"]}}

Children == CurrentLeaves \cup LegacyLeaves \cup UnrecognizedNodes \cup MixedNodes

AnyTrees ==
    Children
    \cup {[cut_dir |-> d, cut_pos |-> MaxPos, left_pattern |-> a, right_pattern |-> b] :
            d \in Axes, a \in Children, b \in Children}
    \cup {LegacyCut(d, MaxPos, <<a, b>>) : d \in Axes, a \in Children, b \in Children}

InitNode ==
    /\ IdleFormat
    /\ IdlePage
    /\ IdleHandle
    /\ IdleColor
    /\ IdleLoad
    /\ tree = Null /\ blockDims = <<10, 8, 6>> /\ kerf \in Kerfs
    /\ drawn = Pending /\ drawnOld = Pending /\ stats = Pending
    /\ statsOld = Pending /\ redrawn = Pending
    /\ anyTree \in AnyTrees
    /\ nodeDrawn = Pending
    /\ nodeStats = Pending
    /\ nodeHTML = Pending

DrawNode ==
    /\ nodeDrawn = Pending
    /\ nodeDrawn' = drawTree(anyTree, blockDims, kerf, <<0, 0, 0>>, <<>>,
                             EmptyRender(TRUE))
    /\ UNCHANGED <<anyTree, nodeStats, nodeHTML, treeVars, formatVars, pageVars,
                   handleVars, colorVars, loadVars>>

CountNode ==
    /\ nodeStats = Pending
    /\ nodeStats' = calculateStatistics(anyTree, blockDims)
    /\ UNCHANGED <<anyTree, nodeDrawn, nodeHTML, treeVars, formatVars, pageVars,
                   handleVars, colorVars, loadVars>>

FormatNode ==
    /\ nodeHTML = Pending
    /\ nodeHTML' = [lines |-> buildTreeHTML(anyTree, 0)]
    /\ UNCHANGED <<anyTree, nodeDrawn, nodeStats, treeVars, formatVars, pageVars,
                   handleVars, colorVars, loadVars>>

NextNode == DrawNode \/ CountNode \/ FormatNode

SpecNode == InitNode /\ [][NextNode]_vars

(***************************************************************************)
(* Properties of the compatibility functions.                              *)
(***************************************************************************)
\* the two children of a cut of either encoding; none for any other node
Kids(t) ==
    IF t = Null THEN <<>>
    ELSE IF TruthyStr(t, "cut_dir")
    THEN <<FieldOr(t, "left_pattern", Null), FieldOr(t, "right_pattern", Null)>>
    ELSE IF Has(t, "kind") /\ t.kind = "cut" /\ Has(t, "children")
            /\ Len(t.children) >= 2
    THEN t.children
    ELSE <<>>

\* the lines of html that show the item id
LinesOf(html, id) ==
    {i \in 1..Len(html.lines) :
        \/ Has(html.lines[i], "item") /\ html.lines[i].item = id
        \/ Has(html.lines[i], "id") /\ html.lines[i].id = id}

DrawnSkipping ==
    nodeDrawn # Pending =>
        /\ ~nodeDrawn.raised
        /\ \A i \in 1..Len(Kids(anyTree)) :
               LET kid == Kids(anyTree)[i]
               IN  /\ kid \in UnrecognizedNodes => MeshesAt(nodeDrawn, <<i - 1>>) = {}
                   /\ IsLeafNode(kid) => MeshesAt(nodeDrawn, <<i - 1>>) # {}

CountedSkipping ==
    nodeStats # Pending =>
        /\ nodeStats # Raised
        /\ \A i \in 1..Len(Kids(anyTree)) :
               LET kid == Kids(anyTree)[i]
               IN  IsLeafNode(kid) => Key(kid.item_id) \in DOMAIN nodeStats.items

FormattedSkipping ==
    nodeHTML # Pending =>
        \A i \in 1..Len(Kids(anyTree)) :
            LET kid == Kids(anyTree)[i]
            IN  IsLeafNode(kid) => LinesOf(nodeHTML, kid.item_id) # {}

\* C21: a node that matches neither encoding (a null or missing child, an
\* object without the fields of a node, a cut whose children are missing)
\* is nothing to render: drawTree, calculateStatistics and buildTreeHTML
\* do not raise on it, add no box for it, and still process the leaf next
\* to it.
C21_UnrecognizedSkipped == DrawnSkipping /\ CountedSkipping /\ FormattedSkipping

\* the calls nodeDrawn records for the node at path
CallsOf(path) == {i \in 1..Len(nodeDrawn.calls) : nodeDrawn.calls[i].path = path}

\* the node t that drawTree reaches at path is handed to drawTreeNew exactly
\* when it has one of fields
DrawnBy(fields, t, path) ==
    nodeDrawn # Pending =>
        \A i \in CallsOf(path) :
            nodeDrawn.calls[i].fn = "drawTreeNew" <=> \E f \in fields : Has(t, f)

\* buildTreeHTML writes the line of a current leaf (with the word Item) for
\* a leaf exactly when the leaf has one of fields
FormattedBy(fields, t) ==
    (nodeHTML # Pending /\ IsLeafNode(t) /\ Has(t, "kind") /\ t.kind = "leaf") =>
        Has(nodeHTML.lines[1], "item") <=> \E f \in fields : Has(t, f)

\* the root, and the children drawTree reaches from a root in the legacy
\* encoding
DetectionBy(fields) ==
    anyTree # Null =>
        /\ DrawnBy(fields, anyTree, <<>>)
        /\ FormattedBy(fields, anyTree)
        /\ (~Has(anyTree, "length") /\ ~Has(anyTree, "cut_dir")) =>
               \A i \in 1..Len(Kids(anyTree)) :
                   Kids(anyTree)[i] # Null =>
                       DrawnBy(fields, Kids(anyTree)[i], <<i - 1>>)

\* C22: drawTree and buildTreeHTML handle a node as the current encoding
\* exactly when it has a cut_dir field or one of the fields length, width,
\* height; only a node with none of the four is handled with the legacy
\* field names.
C22_SchemaDetection == DetectionBy({"cut_dir", "length", "width", "height"})

\* the test the two functions make: length or cut_dir
DetectionByLengthOrCutDir == DetectionBy({"cut_dir", "length"})

(***************************************************************************)
(* Properties of the rows of the cutting program.                          *)
(***************************************************************************)
\* the default color and marker of a step: those of an unknown operation
DefaultStyle == [color |-> "#000", icon |-> ""]

\* every row of an operation of ops has a color and a marker that differ
\* from the default and from those of the rows of the other operations
ClassifiedApart(ops) ==
    (report # Pending /\ Formattable(cuttingTree)) =>
        \A i \in 1..Len(report.rows) :
            report.rows[i].operation \in ops =>
                /\ report.rows[i].operationColor # DefaultStyle.color
                /\ report.rows[i].operationIcon # DefaultStyle.icon
                /\ \A j \in 1..Len(report.rows) :
                       report.rows[j].operation # report.rows[i].operation =>
                           /\ report.rows[j].operationColor # report.rows[i].operationColor
                           /\ report.rows[j].operationIcon # report.rows[i].operationIcon

\* C23: the formatter gives each of the four operations of the data model,
\* START, CUT, SUB_BLOCK and ITEM, its own marker and color, different from
\* those of the other operations and from the default of an unknown one.
C23_OperationClassification == ClassifiedApart({"START", "CUT", "SUB_BLOCK", "ITEM"})

\* the names the formatter tests for
ClassifiedApartHyphen == ClassifiedApart({"START", "CUT", "SUB-BLOCK", "ITEM"})

\* a step of the shape {seq, operation, description, depth, volume}
StepFields == {"seq", "operation", "description", "depth", "volume"}

IsStep(step) == DOMAIN step \subseteq StepFields

\* C24: for every step of the shape {seq, operation, description, depth,
\* volume} the formatter does not raise, and the row of the step has an
\* indentation of 2 * depth spaces (none without depth) and shows the
\* volume of the step, or the placeholder when the volume is absent or 0.
C24_IndentAndVolume ==
    (report # Pending /\ Has(cuttingTree, "sequence")) =>
        \A i \in 1..Len(cuttingTree.sequence) :
            LET step == cuttingTree.sequence[i]
            IN  IsStep(step) =>
                    /\ report.kind = "html"
                    /\ report.rows[i].indent = 2 * NumOr(step, "depth", 0)
                    /\ report.rows[i].volume =
                           IF Has(step, "volume") /\ step.volume # 0
                           THEN [placeholder |-> FALSE, value |-> step.volume]
                           ELSE [placeholder |-> TRUE]

(***************************************************************************)
(* Properties of repeated reconstruction.                                  *)
(***************************************************************************)
\* the placements of run gen, in the order they were added
PlacementsOfRun(st, gen) ==
    LET ms == SelectSeq(st.scene, LAMBDA obj : IsMesh(obj) /\ obj.gen = gen)
    IN  [i \in 1..Len(ms) |-> Placement(ms[i])]

\* the calls of the first and of the second run: the two halves of calls
CallsOfRun(st, run) ==
    LET n == Len(st.calls) \div 2
    IN  SubSeq(st.calls, (run - 1) * n + 1, run * n)

Shown(v, d) ==
    [scene |-> v.scene, itemMeshes |-> v.itemMeshes, itemLabels |-> v.itemLabels,
     blockWireframe |-> v.blockWireframe, winBlockWireframe |-> v.winBlockWireframe,
     currentBlockDims |-> v.currentBlockDims,
     winCurrentBlockDims |-> v.winCurrentBlockDims,
     camera |-> v.camera,
     blockInputs |-> d.blockInputs, statsTable |-> d.statsTable,
     treeView |-> d.treeView]

\* this step ends a request whose response has a non-success status
EndsWithStatus ==
    \E i \in 1..Len(inflight) :
        inflight[i].pc = "text" /\ Len(inflight') < Len(inflight)

\* this step is one of the handler of a request that will end so: the click
\* up to the fetch, or the fetch settling with a non-success status
LeadsToStatus ==
    \/ Len(inflight') > Len(inflight)
    \/ \E i \in 1..Len(inflight) :
           /\ Len(inflight') = Len(inflight)
           /\ inflight[i].pc = "fetch" /\ inflight'[i].pc = "text"

\* C26: a request that ends with a non-success HTTP status leaves the scene
\* objects, currentBlockDims, the block inputs and the statistics table as
\* they were: the steps of its handler change only the button, and its last
\* step only the button and the result panel, which shows the status code
\* and the body text.
C26_FailureChangesNothing ==
    /\ [][LeadsToStatus => (view' = view /\ dom' = dom)]_vars
    /\ [][EndsWithStatus =>
            /\ Shown(view', dom') = Shown(view, dom)
            /\ dom'.mode = dom.mode
            /\ dom'.result = [kind |-> "error",
                              message |-> [type |-> "HTTP",
                                           status |-> inflight[1].status,
                                           text |-> "body"]]
            /\ Enabled(runBtn')]_vars

\* a request has ended with status 500 over the drawn result of an earlier
\* one, whose statistics table is still shown
C26_Witness ==
    /\ inflight = <<>>
    /\ clicks >= 2
    /\ dom.result.kind = "error"
    /\ dom.result.message.type = "HTTP"
    /\ dom.result.message.status = 500
    /\ view.gen >= 1
    /\ Len(view.itemMeshes) > 0
    /\ dom.statsTable.display # "none"

(***************************************************************************)
(* The page while it loads.  The patch script and app.js are evaluated     *)
(* once each.  The patch script schedules initPatch for DOMContentLoaded   *)
(* when it runs while the document is loading, and for a timeout of 100 ms *)
(* otherwise; initPatch schedules itself again while the run button is     *)
(* missing.  app.js is a module: it is evaluated when its imports have     *)
(* arrived, after the document is parsed and before DOMContentLoaded; its  *)
(* top level assigns the handler and raises when the button is missing.    *)
(* A timer fires at any time after it was set.  loading holds              *)
(*   readyState   document.readyState                                      *)
(*   dispatched   DOMContentLoaded has been dispatched                     *)
(*   button       the element with id run exists                           *)
(*   patchScript, appScript   pending, evaluated or (app.js) failed        *)
(*   listener     initPatch waits for DOMContentLoaded                     *)
(*   timers       the timeouts set for initPatch and not yet fired         *)
(*   retries      the number of times initPatch missed the button          *)
(*   scheduled    history: how the patch script scheduled initPatch        *)
(***************************************************************************)
StartLoading ==
    [readyState |-> "loading", dispatched |-> FALSE, button |-> FALSE,
     patchScript |-> "pending", appScript |-> "pending",
     listener |-> FALSE, timers |-> 0, retries |-> 0, scheduled |-> "none"]

InitLoad ==
    /\ IdleTree
    /\ IdleFormat
    /\ IdleHandle
    /\ IdleColor
    /\ IdleNode
    /\ onclick = "none"
    /\ runBtn = [disabled |-> FALSE, textContent |-> LabelGenerate]
    /\ inflight = <<>>
    /\ clicks = 0
    /\ view = EmptyRender(FALSE)
    /\ dom = EmptyDom
    /\ loading = StartLoading

\* initPatch: the page and the handler after the call
initPatch(ld, handler) ==
    IF ~ld.button
    THEN [ld |-> [ld EXCEPT !.timers = @ + 1, !.retries = @ + 1], onclick |-> handler]
    ELSE [ld |-> ld, onclick |-> "patch"]

\* the parser, or a script, adds the run button to the document
InsertButton ==
    /\ ~loading.button
    /\ loading' = [loading EXCEPT !.button = TRUE]
    /\ UNCHANGED <<pageVars, treeVars, formatVars, handleVars, colorVars, nodeVars>>

\* the parser reaches the end of the document
ParsingEnds ==
    /\ loading.readyState = "loading"
    /\ loading' = [loading EXCEPT !.readyState = "interactive"]
    /\ UNCHANGED <<pageVars, treeVars, formatVars, handleVars, colorVars, nodeVars>>

\* the patch script is evaluated
EvalPatch ==
    /\ loading.patchScript = "pending"
    /\ loading' = IF loading.readyState = "loading"
                  THEN [loading EXCEPT !.patchScript = "evaluated", !.listener = TRUE,
                                       !.scheduled = "DOMContentLoaded"]
                  ELSE [loading EXCEPT !.patchScript = "evaluated", !.timers = @ + 1,
                                       !.scheduled = "timeout"]
    /\ UNCHANGED <<pageVars, treeVars, formatVars, handleVars, colorVars, nodeVars>>

\* app.js is evaluated
EvalApp ==
    /\ loading.appScript = "pending"
    /\ loading.readyState = "interactive" /\ ~loading.dispatched
    /\ loading' = [loading EXCEPT !.appScript = IF loading.button THEN "evaluated"
                                                ELSE "failed"]
    /\ onclick' = IF loading.button THEN "app" ELSE onclick
    /\ UNCHANGED <<runBtn, inflight, clicks, view, dom, treeVars, formatVars,
                   handleVars, colorVars, nodeVars>>

\* DOMContentLoaded is dispatched once the module has been evaluated
DOMContentLoaded ==
    /\ loading.readyState = "interactive" /\ ~loading.dispatched
    /\ loading.appScript # "pending"
    /\ loading.button \/ ~loading.listener \/ loading.retries < MaxRetries
    /\ LET ld == [loading EXCEPT !.dispatched = TRUE, !.listener = FALSE]
           after == IF loading.listener THEN initPatch(ld, onclick)
                    ELSE [ld |-> ld, onclick |-> onclick]
       IN  loading' = after.ld /\ onclick' = after.onclick
    /\ UNCHANGED <<runBtn, inflight, clicks, view, dom, treeVars, formatVars,
                   handleVars, colorVars, nodeVars>>

\* the load event: the document is complete
Load ==
    /\ loading.readyState = "interactive" /\ loading.dispatched
    /\ loading' = [loading EXCEPT !.readyState = "complete"]
    /\ UNCHANGED <<pageVars, treeVars, formatVars, handleVars, colorVars, nodeVars>>

\* a timeout set for initPatch fires
TimerFires ==
    /\ loading.timers > 0
    /\ loading.button \/ loading.retries < MaxRetries
    /\ LET after == initPatch([loading EXCEPT !.timers = @ - 1], onclick)
       IN  loading' = after.ld /\ onclick' = after.onclick
    /\ UNCHANGED <<runBtn, inflight, clicks, view, dom, treeVars, formatVars,
                   handleVars, colorVars, nodeVars>>

NextLoad ==
    \/ InsertButton
    \/ ParsingEnds
    \/ EvalPatch
    \/ EvalApp
    \/ DOMContentLoaded
    \/ Load
    \/ TimerFires

SpecLoad == InitLoad /\ [][NextLoad]_vars

\* both scripts were evaluated, the document is complete and no call of
\* initPatch is still to come
Initialized ==
    /\ loading.readyState = "complete"
    /\ loading.patchScript = "evaluated"
    /\ loading.appScript # "pending"
    /\ ~loading.listener /\ loading.timers = 0

\* C27: once the page is initialized, the handler of the run button is the
\* one of the patch, in whatever order initPatch (at DOMContentLoaded, after
\* the timeout of 100 ms, or retried until the button exists) and the
\* assignment of app.js were executed.
C27_PatchHandlerLast == Initialized => onclick = "patch"

\* the same for a patch script that ran while the document was loading
PatchLastWhenListening ==
    (Initialized /\ loading.scheduled = "DOMContentLoaded") => onclick = "patch"

====
